---- MODULE Spec2Model ----
(***************************************************************************)
(* A model of the snapshot acquisition pipeline of wayback-machine-        *)
(* downloader: the index query, the outer queue of downloadSnapshot tasks, *)
(* the page step, the inner queue of downloadUrlToPath tasks, and the      *)
(* filesystem they share.  One action is one turn of the event loop: the   *)
(* completion of an awaited operation together with everything the code    *)
(* runs synchronously (and in microtasks) up to the next await.            *)
(***************************************************************************)
EXTENDS Integers, Sequences, FiniteSets, TLC

\* ------------------------------------------------------------------ bounds
MaxTasks == 4
MaxFaults == 3
MaxRuns == 2

MaxLen == 6
MaxRows == 4
MaxAttrs == 2

\* ------------------------------------------------------- program constants
MaxAttempts == 3
BackoffUnit == 1000
MinInner == 2
MaxInner == 10

\* -------------------------------------------------------------------- data
OutRoot == "out"
T1 == "20200101000000"
T2 == "20210101000000"

Url(scheme, host, path, query) ==
  [scheme |-> scheme, host |-> host, path |-> path, query |-> query]

RootUrl == Url("https", "example.com", <<"/">>, "")
APng == Url("https", "example.com", <<"/", "a.png">>, "")
APngV2 == Url("https", "example.com", <<"/", "a.png">>, "v=2")
CdnPng == Url("https", "cdn.net", <<"/", "a.png">>, "")
BJs == Url("https", "example.com", <<"/", "b.js">>, "")
CCss == Url("https", "example.com", <<"/", "c.css">>, "")
DataRef == Url("data", "", <<"image/png;base64,AAAA">>, "")
\* A page without trailing slash and an asset below it.
BlogUrl == Url("https", "example.com", <<"/", "blog">>, "")
BlogAPng == Url("https", "example.com", <<"/", "blog", "/", "a.png">>, "")
\* URLs written with segments that lead upwards.
DotPage == Url("https", "example.com", <<"/", "..", "/", "..", "/", "etc", "/">>, "")
DotRef == Url("https", "cdn.net", <<"/", "%2e%2e", "/", "..", "/", "a.png">>, "")

Capture(ts, original) ==
  [timestamp |-> ts, original |-> original, mimetype |-> "text/html"]

\* The text of a URL: its pieces in order, each separator a piece of its own.
Render(u) ==
  (IF u.host = "" THEN <<u.scheme, ":">> ELSE <<u.scheme, ":", "/", "/", u.host>>) \o u.path
    \o (IF u.query # "" THEN <<"?", u.query>> ELSE <<>>)
    \o (IF "fragment" \in DOMAIN u THEN <<"#", u.fragment>> ELSE <<>>)

\* What follows the last dot at the end of a lower-cased text.
ExtOf(name) ==
  CASE name \in {"a.png", "A.PNG", "example.png"} -> "png"
    [] name = "a.jpg" -> "jpg"
    [] name = "a.jpeg" -> "jpeg"
    [] name = "a.gif" -> "gif"
    [] name = "a.webp" -> "webp"
    [] name = "a.svg" -> "svg"
    [] name = "a.ico" -> "ico"
    [] name = "a.bmp" -> "bmp"
    [] name = "a.tif" -> "tif"
    [] name = "a.tiff" -> "tiff"
    [] name \in {"b.js", "B.JS"} -> "js"
    [] name \in {"c.css", "C.Css"} -> "css"
    [] name = "index.html" -> "html"
    [] OTHER -> ""

ImageExts == {"png", "jpg", "jpeg", "gif", "webp", "svg", "ico", "bmp", "tif", "tiff"}

\* Mutant of waybackUrlFor: the extension is looked for at the end of the
\* whole URL.
waybackUrlFor_NoStrip(originalUrl, timestamp) ==
  LET text == Render(originalUrl)
      ext == ExtOf(text[Len(text)])
      mod == IF ext \in ImageExts THEN "im_"
             ELSE IF ext = "css" THEN "cs_"
             ELSE IF ext = "js" THEN "js_"
             ELSE "id_"
  IN <<"https", ":", "/", "/", "web.archive.org", "/", "web", "/", timestamp, mod, "/">>
       \o text

waybackUrlFor(originalUrl, timestamp) ==
  LET text == Render(originalUrl)
      RECURSIVE Before(_, _)
      Before(str, sep) ==
        IF str = <<>> \/ Head(str) = sep THEN <<>>
        ELSE <<Head(str)>> \o Before(Tail(str), sep)
      stripped == Before(Before(text, "?"), "#")
      ext == ExtOf(stripped[Len(stripped)])
      mod == IF ext \in ImageExts THEN "im_"
             ELSE IF ext = "css" THEN "cs_"
             ELSE IF ext = "js" THEN "js_"
             ELSE "id_"
  IN <<"https", ":", "/", "/", "web.archive.org", "/", "web", "/", timestamp, mod, "/">>
       \o text

\* The pathname new URL(...) gives for a path as written: the URL parser drops
\* the segments "." and ".." (also written with %2e), ".." together with the
\* segment before it, and never rises above the root.
Pathname(path) ==
  LET SingleDots == {".", "%2e", "%2E"}
      DoubleDots == {"..", ".%2e", "%2e.", "%2e%2e", "%2E%2E"}
      Up(acc) ==
        LET front == SubSeq(acc, 1, Len(acc) - 1) IN
        IF front = <<>> THEN acc
        ELSE IF front[Len(front)] = "/" THEN front
        ELSE SubSeq(front, 1, Len(front) - 1)
      Skip(rest) == IF rest # <<>> /\ Head(rest) = "/" THEN Tail(rest) ELSE rest
      RECURSIVE Walk(_, _)
      Walk(acc, rest) ==
        IF rest = <<>> THEN acc
        ELSE IF Head(rest) \in DoubleDots THEN Walk(Up(acc), Skip(Tail(rest)))
        ELSE IF Head(rest) \in SingleDots THEN Walk(acc, Skip(Tail(rest)))
        ELSE Walk(Append(acc, Head(rest)), Tail(rest))
  IN Walk(<<>>, IF path = <<>> THEN <<"/">> ELSE path)

\* path.join: the parts separated by "/", empty segments and "." dropped,
\* ".." taken together with the segment before it.
JoinSegments(tokens) ==
  LET RECURSIVE Walk(_, _)
      Walk(acc, rest) ==
        IF rest = <<>> THEN acc
        ELSE IF Head(rest) \in {"/", "."} THEN Walk(acc, Tail(rest))
        ELSE IF Head(rest) = ".." /\ acc # <<>> /\ acc[Len(acc)] # ".."
        THEN Walk(SubSeq(acc, 1, Len(acc) - 1), Tail(rest))
        ELSE Walk(Append(acc, Head(rest)), Tail(rest))
  IN Walk(<<>>, tokens)

\* Mutant of targetPath: the files of a host go under a folder of that host.
targetPath_ByHost(outRoot, cap) ==
  LET p0 == Pathname(cap.original.path)
      p == IF p0[Len(p0)] = "/" THEN Append(p0, "index.html") ELSE p0
      cleanPath == IF Head(p) = "/" THEN Tail(p) ELSE p
  IN JoinSegments(<<outRoot, "/", cap.timestamp, "/", cap.original.host, "/">> \o cleanPath)

\* Mutant of targetPath: the path is taken from the URL as written.
targetPath_AsWritten(outRoot, cap) ==
  LET p0 == IF cap.original.path = <<>> THEN <<"/">> ELSE cap.original.path
      p == IF p0[Len(p0)] = "/" THEN Append(p0, "index.html") ELSE p0
      cleanPath == IF Head(p) = "/" THEN Tail(p) ELSE p
  IN JoinSegments(<<outRoot, "/", cap.timestamp, "/">> \o cleanPath)

\* new URL(cap.original).pathname is "/" for a URL without a path.
targetPath(outRoot, cap) ==
  LET p0 == Pathname(cap.original.path)
      p == IF p0[Len(p0)] = "/" THEN Append(p0, "index.html") ELSE p0
      cleanPath == IF Head(p) = "/" THEN Tail(p) ELSE p
  IN JoinSegments(<<outRoot, "/", cap.timestamp, "/">> \o cleanPath)

dirname(path) == SubSeq(path, 1, Len(path) - 1)

\* A Set keeps its members in insertion order.
RECURSIVE Dedup(_, _)
Dedup(seq, seen) ==
  IF seq = <<>> THEN <<>>
  ELSE IF Head(seq) \in seen THEN Dedup(Tail(seq), seen)
  ELSE <<Head(seq)>> \o Dedup(Tail(seq), seen \cup {Head(seq)})

\* Mutant of IsHttp: only data: URLs are dropped.
IsHttp_NotData(u) == u.scheme # "data"

IsHttp(u) == u.scheme \in {"http", "https"}

\* new URL(u, baseUrl) for a reference given as text: <<>> when it throws.
ResolveUrl(word, base) ==
  LET RECURSIVE UpTo(_, _)
      UpTo(str, sep) ==
        IF str = <<>> \/ Head(str) = sep THEN <<>>
        ELSE <<Head(str)>> \o UpTo(Tail(str), sep)
      RECURSIVE After(_, _)
      After(str, sep) ==
        IF str = <<>> THEN <<>>
        ELSE IF Head(str) = sep THEN Tail(str) ELSE After(Tail(str), sep)
      Build(scheme, host, rest) ==
        LET path == UpTo(UpTo(rest, "#"), "?")
            query == After(UpTo(rest, "#"), "?")
            fragment == After(rest, "#")
            u == Url(scheme, host, Pathname(path),
                     IF query = <<>> THEN "" ELSE query[1])
        IN IF fragment = <<>> THEN u ELSE u @@ [fragment |-> fragment[1]]
      slashes == {k \in 1..Len(base.path) : base.path[k] = "/"}
      dir == SubSeq(base.path, 1, CHOOSE k \in slashes : \A m \in slashes : m <= k)
  IN IF Len(word) >= 2 /\ word[2] = ":"
     THEN IF word[1] \in {"http", "https", "ftp"}
          THEN IF /\ Len(word) >= 5 /\ word[3] = "/" /\ word[4] = "/"
                  /\ word[5] \notin {"/", "?", "#"}
               THEN <<Build(word[1], word[5], SubSeq(word, 6, Len(word)))>>
               ELSE <<>>
          ELSE <<Url(word[1], "", SubSeq(word, 3, Len(word)), "")>>
     ELSE IF Len(word) >= 3 /\ word[1] = "/" /\ word[2] = "/"
     THEN <<Build(base.scheme, word[3], SubSeq(word, 4, Len(word)))>>
     ELSE IF word[1] = "/"
     THEN <<Build(base.scheme, base.host, word)>>
     ELSE <<Build(base.scheme, base.host, dir \o word)>>

\* An HTML text is its attributes in document order, each a name and a value;
\* a value is a sequence of words, where a blank, a line break and a comma
\* are words of their own and every other word is a sequence of pieces.
\* A regex of the scan finds an attribute by the end of its name, and only
\* when the value holds no line break ('.' does not match one).
extractAssetUrls(html, baseUrl) ==
  LET OneLine(a) == \A k \in 1..Len(a.value) : a.value[k] # <<"\n">>
      IsAttr(a) == a.name \in {"src", "href", "data-src"} /\ OneLine(a)
      IsSrcset(a) == a.name \in {"srcset", "data-srcset"} /\ OneLine(a)
      RECURSIVE Flatten(_)
      Flatten(seqs) == IF seqs = <<>> THEN <<>> ELSE Head(seqs) \o Flatten(Tail(seqs))
      RECURSIVE Split(_, _)
      Split(value, part) ==
        IF value = <<>> THEN <<part>>
        ELSE IF Head(value) = <<",">> THEN <<part>> \o Split(Tail(value), <<>>)
        ELSE Split(Tail(value), Append(part, Head(value)))
      NotBlank(word) == word \notin {<<" ">>, <<"\n">>}
      FirstToken(part) ==
        LET words == SelectSeq(part, NotBlank) IN IF words = <<>> THEN <<>> ELSE words[1]
      FromSrcset(a) == LET parts == Split(a.value, <<>>)
                       IN [k \in 1..Len(parts) |-> FirstToken(parts[k])]
      attrs == SelectSeq(html, IsAttr)
      srcsets == SelectSeq(html, IsSrcset)
      found == [k \in 1..Len(attrs) |-> Flatten(attrs[k].value)]
                 \o Flatten([k \in 1..Len(srcsets) |-> FromSrcset(srcsets[k])])
      add(u) == IF u = <<>> THEN <<>> ELSE ResolveUrl(u, baseUrl)
      urls == Dedup(Flatten([k \in 1..Len(found) |-> add(found[k])]), {})
  IN SelectSeq(urls, IsHttp)

\* Mutant of AssetsToFetch: the option is not consulted.
AssetsToFetch_All(html, cap, o) == extractAssetUrls(html, cap.original)

AssetsToFetch(html, cap, o) ==
  LET assets == extractAssetUrls(html, cap.original)
      rootHost == cap.original.host
      SameHost(a) == a.host = rootHost
      sameHostAssets == SelectSeq(assets, SameHost)
  IN IF o.includeExternal THEN assets ELSE sameHostAssets

Min(a, b) == IF a < b THEN a ELSE b
Max(a, b) == IF a > b THEN a ELSE b

\* Mutant of InnerConcurrency: floor and ceiling swapped.
InnerConcurrency_Swapped(o) == Max(MaxInner, Min(MinInner, o.concurrency))

InnerConcurrency(o) == Max(MinInner, Min(MaxInner, o.concurrency))

OuterConcurrency(o) == o.concurrency

IsOk(status) == status >= 200 /\ status <= 299

\* Mutant of BackoffDelay: a constant delay.
BackoffDelay_Constant(attempt) == BackoffUnit

BackoffDelay(attempt) == BackoffUnit * attempt

\* ------------------------------------------------------------------- state
VARIABLES
  opts,       \* the parsed command line (CLIOptions)
  rows,       \* the body the index answers with: header row, then captures
  site,       \* the html the archive serves as the page of every capture
  run,        \* which run over the same output directory this is
  prevFiles,  \* the paths that existed when this run started
  prevFailed, \* the paths whose download ended on a third non-2xx answer in the run before
  main,       \* where the main download flow stands
  captures,   \* the selected captures, in queue order
  snap,       \* per capture: its downloadSnapshot invocation
  task,       \* per single-resource download: its retry loop
  files,      \* the output directory: path -> file
  debugLog,   \* the lines appended to debug.json files, in order
  faults,     \* failures injected so far (non-2xx, transport, filesystem)
  index,      \* listCaptures: the GETs sent to the index, the error thrown
  call,       \* a pure function applied on its own: name, argument, result
  deploy      \* deploy mode: the steps of deployWithVercel and what they see

vars == <<opts, rows, site, run, prevFiles, prevFailed, main, captures, snap, task, files,
          debugLog, faults, index, call, deploy>>

\* A capture is at least two steps of work (its page, its read-back), so a
\* run of at most MaxTasks downloads has at most MaxTasks \div 2 captures.
MaxCaptures == MaxTasks \div 2
CapIds == 1..MaxCaptures
RefIds == 1..(MaxTasks - 1)
TaskIds == CapIds \X (0..(MaxTasks - 1))

NoTask == [pc |-> "none", attempt |-> 0, gets |-> 0, waits |-> <<>>,
           saw |-> "unchecked", err |-> <<>>, ctype |-> "", wrote |-> FALSE, bad |-> 0,
           dest |-> <<>>]
NoSnap == [pc |-> "none", assets |-> <<>>, ticks |-> 0, err |-> <<>>,
           caught |-> <<>>, slotFrom |-> 0, limit |-> 0]

ActivePcs == {"mkdir", "get", "backoff", "stream"}
SettledPcs == {"ok", "skipped", "failed"}
SnapRunningPcs == {"page", "rwRead", "rwWrite", "dbgMkdir", "dbgAppend", "read", "assets"}
SnapSettledPcs == {"resolved", "rejected"}

\* The mutable part of the state as one record, so that the synchronous
\* continuations below can be composed.
Cur == [main |-> main, captures |-> captures, snap |-> snap, task |-> task,
        files |-> files, debugLog |-> debugLog]

Commit(s) ==
  /\ main' = s.main
  /\ captures' = s.captures
  /\ snap' = s.snap
  /\ task' = s.task
  /\ files' = s.files
  /\ debugLog' = s.debugLog

CapOf(s, i) == s.captures[i]
OrigOf(s, t) ==
  IF t[2] = 0 THEN CapOf(s, t[1]).original ELSE s.snap[t[1]].assets[t[2]]
DestOf(s, t) ==
  targetPath(OutRoot, [timestamp |-> CapOf(s, t[1]).timestamp, original |-> OrigOf(s, t)])
ReplayOf(s, t) == waybackUrlFor(OrigOf(s, t), CapOf(s, t[1]).timestamp)

existsSync(fsys, path) == path \in DOMAIN fsys

SetTask(s, t, rec) == [s EXCEPT !.task[t] = rec]
SetSnapPc(s, i, pc) == [s EXCEPT !.snap[i].pc = pc]

\* What a failed download or a failed invocation throws.
HttpError(status, url) == <<[kind |-> "http", status |-> status, url |-> url]>>
OtherError(kind) == <<[kind |-> kind, status |-> 0, url |-> <<>>]>>

MinOf(S) == CHOOSE x \in S : \A y \in S : x <= y

\* ------------------------------------------------ synchronous continuations
\* createWriteStream(dest): the file is created, or truncated when it exists.
createWriteStream(fsys, dest, url) ==
  (dest :> [from |-> url, state |-> "partial", rewritten |-> FALSE]) @@ fsys

\* Mutant of StartAsset: the download goes on although the file exists.
StartAsset_NoSkip(s, t) ==
  LET dest == DestOf(s, t) IN
  SetTask(s, t, [NoTask EXCEPT !.pc = "mkdir", !.dest = dest,
                               !.saw = IF existsSync(s.files, dest)
                                       THEN "present" ELSE "absent"])

\* downloadUrlToPath up to its first await: the existence check.
StartAsset(s, t) ==
  LET dest == DestOf(s, t) IN
  IF existsSync(s.files, dest)
  THEN SetTask(s, t, [NoTask EXCEPT !.pc = "skipped", !.saw = "present", !.dest = dest])
  ELSE SetTask(s, t, [NoTask EXCEPT !.pc = "mkdir", !.saw = "absent", !.dest = dest])

AssetIds(s, i) == 1..Len(s.snap[i].assets)
InnerActive(s, i) == {j \in AssetIds(s, i) : s.task[<<i, j>>].pc \in ActivePcs}
InnerQueued(s, i) == {j \in AssetIds(s, i) : s.task[<<i, j>>].pc = "queued"}

\* The inner PQueue: start waiting tasks, in order, while a slot is free.
RECURSIVE InnerDispatch(_, _)
InnerDispatch(s, i) ==
  IF Cardinality(InnerActive(s, i)) < s.snap[i].limit /\ InnerQueued(s, i) # {}
  THEN InnerDispatch(StartAsset(s, <<i, MinOf(InnerQueued(s, i))>>), i)
  ELSE s

\* The step after the page step: the debug block when opts.debug, else the
\* read-back of the page file.
AfterPage(s, i) == SetSnapPc(s, i, IF opts.debug THEN "dbgMkdir" ELSE "read")

\* Mutant of StartSnap: the page is fetched although its file exists.
StartSnap_NoSkip(s, i, from) ==
  LET t == <<i, 0>>
      dest == DestOf(s, t)
  IN SetTask([s EXCEPT !.snap[i].pc = "page", !.snap[i].slotFrom = from], t,
             [NoTask EXCEPT !.pc = "mkdir", !.dest = dest,
                            !.saw = IF existsSync(s.files, dest)
                                    THEN "present" ELSE "absent"])

\* downloadSnapshot up to its first await.
StartSnap(s, i, from) ==
  LET t == <<i, 0>>
      dest == DestOf(s, t)
      s1 == [s EXCEPT !.snap[i].pc = "page", !.snap[i].slotFrom = from]
  IN IF ~existsSync(s.files, dest)
     THEN SetTask(s1, t, [NoTask EXCEPT !.pc = "mkdir", !.saw = "absent", !.dest = dest])
     ELSE AfterPage(SetTask(s1, t, [NoTask EXCEPT !.pc = "skipped", !.saw = "present",
                                                  !.dest = dest]), i)

SnapIds(s) == 1..Len(s.captures)
OuterRunning(s) == {i \in SnapIds(s) : s.snap[i].pc \in SnapRunningPcs}
OuterQueued(s) == {i \in SnapIds(s) : s.snap[i].pc = "queued"}

\* Mutant of OuterDispatch: every waiting capture is started at once.
RECURSIVE OuterDispatch_Unbounded(_, _)
OuterDispatch_Unbounded(s, from) ==
  IF OuterQueued(s) # {}
  THEN OuterDispatch_Unbounded(StartSnap(s, MinOf(OuterQueued(s)), from), from)
  ELSE s

\* The outer PQueue: start waiting captures, in order, while a slot is free.
RECURSIVE OuterDispatch(_, _)
OuterDispatch(s, from) ==
  IF Cardinality(OuterRunning(s)) < OuterConcurrency(opts) /\ OuterQueued(s) # {}
  THEN OuterDispatch(StartSnap(s, MinOf(OuterQueued(s)), from), from)
  ELSE s

\* queue.onIdle(): the main flow ends once nothing is waiting or running.
Idle(s) ==
  IF OuterRunning(s) = {} /\ OuterQueued(s) = {} THEN [s EXCEPT !.main = "done"] ELSE s

\* downloadSnapshot returns: .then(() => bar.tick()), and the queue moves on.
Resolve(s, i) ==
  Idle(OuterDispatch([s EXCEPT !.snap[i].pc = "resolved", !.snap[i].ticks = @ + 1], i))

\* downloadSnapshot throws: the promise of queue.add rejects and nothing
\* handles it.  The queue moves on; the runtime then either ends the process
\* on the unhandled rejection (crash) or only warns.
Reject(s, i, err, crash) ==
  LET s1 == OuterDispatch([s EXCEPT !.snap[i].pc = "rejected", !.snap[i].err = err], i)
  IN IF crash THEN [s1 EXCEPT !.main = "crashed"] ELSE Idle(s1)

\* Mutant of AssetSettled: an asset's failure is not caught.
AssetSettled_Propagate(s, i) ==
  LET s1 == InnerDispatch(s, i)
  IN IF \E j \in AssetIds(s1, i) : s1.task[<<i, j>>].pc = "failed"
     THEN Reject(s1, i, OtherError("asset"), FALSE)
     ELSE IF \A j \in AssetIds(s1, i) : s1.task[<<i, j>>].pc \in SettledPcs
     THEN Resolve(s1, i)
     ELSE s1

\* Mutant of AssetSettled: the invocation returns at the first settled asset.
AssetSettled_Early(s, i) ==
  LET s1 == InnerDispatch(s, i)
  IN IF AssetIds(s1, i) = {} \/ \E j \in AssetIds(s1, i) : s1.task[<<i, j>>].pc \in SettledPcs
     THEN Resolve(s1, i)
     ELSE s1

\* An asset task settled (its failure swallowed by .catch): the inner queue
\* moves on, and Promise.all resolves once every asset task has settled.
AssetSettled(s, i) ==
  LET s1 == InnerDispatch(s, i)
  IN IF \A j \in AssetIds(s1, i) : s1.task[<<i, j>>].pc \in SettledPcs
     THEN Resolve(s1, i)
     ELSE s1

\* The try block of downloadSnapshot once the page file has been read.
QueueAssets(s, i, html) ==
  LET assets == AssetsToFetch(html, CapOf(s, i), opts)
      s1 == [s EXCEPT !.snap[i].pc = "assets",
                      !.snap[i].assets = assets,
                      !.snap[i].limit = InnerConcurrency(opts),
                      !.task = [t \in TaskIds |->
                                  IF t[1] = i /\ t[2] \in 1..Len(assets)
                                  THEN [NoTask EXCEPT !.pc = "queued"]
                                  ELSE @[t]]]
  IN AssetSettled(s1, i)

\* The main flow from the capture list on: the outer queue and its tasks.
Launch(s, caps) ==
  IF OuterConcurrency(opts) < 1
  THEN [s EXCEPT !.main = "failed"]
  ELSE Idle(OuterDispatch(
         [s EXCEPT !.main = "queue",
                   !.captures = caps,
                   !.snap = [i \in CapIds |->
                               IF i <= Len(caps) THEN [NoSnap EXCEPT !.pc = "queued"]
                               ELSE NoSnap]], 0))

\* ------------------------------------------------- the retry loop, per task

\* fs.mkdir(dir, { recursive: true }) rejects when dir, or a directory on the
\* way to it, exists as a regular file.
MkdirBlocked(fsys, dir) == \E n \in 1..Len(dir) : SubSeq(dir, 1, n) \in DOMAIN fsys

\* ensureDir settled: attempt 1 issues its GET, or the rejection propagates.
MkdirDoneT(s, t) ==
  IF MkdirBlocked(s.files, dirname(s.task[t].dest))
  THEN SetTask(s, t, [s.task[t] EXCEPT !.pc = "failed", !.err = OtherError("fs")])
  ELSE SetTask(s, t, [s.task[t] EXCEPT !.pc = "get", !.attempt = 1, !.gets = 1])

\* Mutant of ResponseT: the loop gives up one attempt late.
ResponseT_OneMore(s, t, status, ctype) ==
  LET r == s.task[t] IN
  IF ~IsOk(status)
  THEN IF r.attempt = MaxAttempts + 1
       THEN SetTask(s, t, [r EXCEPT !.pc = "failed", !.bad = @ + 1,
                                    !.err = HttpError(status, ReplayOf(s, t))])
       ELSE SetTask(s, t, [r EXCEPT !.pc = "backoff", !.bad = @ + 1,
                                    !.waits = Append(@, BackoffDelay(r.attempt))])
  ELSE [SetTask(s, t, [r EXCEPT !.pc = "stream", !.ctype = ctype, !.wrote = TRUE])
          EXCEPT !.files = createWriteStream(s.files, r.dest, ReplayOf(s, t))]

\* Mutant of ResponseT: the destination is opened before the answer's status
\* is looked at.
ResponseT_OpenFirst(s, t, status, ctype) ==
  LET r == s.task[t]
      opened == [s EXCEPT !.files = createWriteStream(s.files, r.dest, ReplayOf(s, t))]
  IN IF ~IsOk(status)
     THEN IF r.attempt = MaxAttempts
          THEN SetTask(opened, t, [r EXCEPT !.pc = "failed", !.bad = @ + 1,
                                            !.err = HttpError(status, ReplayOf(s, t))])
          ELSE SetTask(opened, t, [r EXCEPT !.pc = "backoff", !.bad = @ + 1,
                                            !.waits = Append(@, BackoffDelay(r.attempt))])
     ELSE SetTask(opened, t, [r EXCEPT !.pc = "stream", !.ctype = ctype, !.wrote = TRUE])

\* A response arrived for the GET of the current attempt.
ResponseT(s, t, status, ctype) ==
  LET r == s.task[t] IN
  IF ~IsOk(status)
  THEN IF r.attempt = MaxAttempts
       THEN SetTask(s, t, [r EXCEPT !.pc = "failed", !.bad = @ + 1,
                                    !.err = HttpError(status, ReplayOf(s, t))])
       ELSE SetTask(s, t, [r EXCEPT !.pc = "backoff", !.bad = @ + 1,
                                    !.waits = Append(@, BackoffDelay(r.attempt))])
  ELSE [SetTask(s, t, [r EXCEPT !.pc = "stream", !.ctype = ctype, !.wrote = TRUE])
          EXCEPT !.files = createWriteStream(s.files, r.dest, ReplayOf(s, t))]

\* The backoff timer fired: the next attempt issues its GET.
TimerT(s, t) ==
  SetTask(s, t, [s.task[t] EXCEPT !.pc = "get", !.attempt = @ + 1, !.gets = @ + 1])

OtherWriters(s, t) ==
  {u \in TaskIds : u # t /\ s.task[u].pc = "stream" /\ s.task[u].dest = s.task[t].dest}

\* pipeline resolved: the whole body is in the file.
StreamDoneT(s, t) ==
  [SetTask(s, t, [s.task[t] EXCEPT !.pc = "ok"])
     EXCEPT !.files[s.task[t].dest].state =
              IF OtherWriters(s, t) = {} THEN "complete" ELSE @]

\* Mutant of FailT: a rejected await is treated like a non-2xx answer.
FailT_Retry(s, t, kind) ==
  IF s.task[t].attempt \in 1..(MaxAttempts - 1)
  THEN SetTask(s, t, [s.task[t] EXCEPT !.pc = "backoff", !.err = OtherError(kind),
                                      !.waits = Append(@, BackoffDelay(s.task[t].attempt))])
  ELSE SetTask(s, t, [s.task[t] EXCEPT !.pc = "failed", !.err = OtherError(kind)])

FailT(s, t, kind) ==
  SetTask(s, t, [s.task[t] EXCEPT !.pc = "failed", !.err = OtherError(kind)])

\* ------------------------------------------------------------------- world
Timestamps == {T1, T2}
CapturePool == {Capture(T1, RootUrl), Capture(T2, RootUrl)}
Bodies ==
  {html \in {<<>>, <<APng>>, <<APng, BJs>>, <<APng, APngV2>>,
             <<APng, CdnPng, APngV2>>, <<APng, BJs, CCss, CdnPng>>} :
     Len(html) < MaxTasks}
Statuses == {200, 299, 300, 503}
\* --concurrency: not a valid queue size, below the inner queue's floor, at
\* the floor, above its ceiling.
ConcurrencyValues == {0, 1, MinInner, MaxInner + 1}
ContentTypes == {"text/html; charset=utf-8", "image/png"}
IsHtmlType(ctype) == ctype = "text/html; charset=utf-8"

HeaderRow == <<"timestamp", "original", "mimetype">>
RowOf(cap) == <<cap.timestamp, cap.original, cap.mimetype>>
\* The index lists captures in timestamp order; rows may repeat.
Sorted(caps) ==
  /\ caps # <<>> => caps[1].timestamp = T1
  /\ \A k \in 1..(Len(caps) - 1) : caps[k].timestamp = T1 \/ caps[k + 1].timestamp = T2
CaptureLists ==
  {caps \in UNION {[1..n -> CapturePool] : n \in 0..MaxCaptures} : Sorted(caps)}
IndexBodies ==
  {<<HeaderRow>> \o [k \in 1..Len(caps) |-> RowOf(caps[k])] : caps \in CaptureLists}

\* Mutant of ParseRows: repeated rows are dropped.
ParseRows_Unique(body) ==
  Dedup([k \in 1..(Len(body) - 1) |->
           [timestamp |-> body[k + 1][1], original |-> body[k + 1][2],
            mimetype |-> body[k + 1][3]]], {})

\* listCaptures' parse of the index body: the first row is dropped, the rest
\* map positionally.
ParseRows(body) ==
  [k \in 1..(Len(body) - 1) |->
     [timestamp |-> body[k + 1][1], original |-> body[k + 1][2],
      mimetype |-> body[k + 1][3]]]

\* The worlds explored: the pages and the references on them together make
\* at most MaxTasks single-resource downloads.
NestedWorld == [rows |-> <<HeaderRow, RowOf(Capture(T1, BlogUrl))>>, site |-> <<BlogAPng>>]

\* A page whose only reference is a link to another page of the site.
LinkWorld == [rows |-> <<HeaderRow, RowOf(Capture(T1, RootUrl))>>, site |-> <<BlogUrl>>]

\* A page and a reference on another host, both written with ".." segments.
DotWorld == [rows |-> <<HeaderRow, RowOf(Capture(T1, DotPage))>>, site |-> <<DotRef>>]

Worlds ==
  {w \in [rows : IndexBodies, site : Bodies] :
     (Len(w.rows) - 1) * Max(2, 1 + Len(w.site)) <= MaxTasks}
  \cup {NestedWorld, LinkWorld, DotWorld}

HasExternal(html, cap) == \E k \in 1..Len(html) : html[k].host # cap.host

\* listCaptures has sent its one GET and awaits the answer.
NoIndex == [gets |-> 1, err |-> <<>>, choices |-> <<>>]
NoCall == [fn |-> "none", arg |-> <<>>, ret |-> <<>>]
\* Download mode: deployWithVercel is not called.
NoDeploy == [pc |-> "off", loggedIn |-> FALSE, entries |-> {}, vjson |-> <<>>,
             choices |-> <<>>, selected |-> <<>>, steps |-> <<>>, wrote |-> FALSE,
             cmd |-> <<>>, err |-> ""]

InitRest ==
  /\ run = 1
  /\ prevFiles = {}
  /\ prevFailed = {}
  /\ main = "cdx"
  /\ captures = <<>>
  /\ snap = [i \in CapIds |-> NoSnap]
  /\ task = [t \in TaskIds |-> NoTask]
  /\ files = <<>>
  /\ debugLog = <<>>
  /\ faults = 0
  /\ index = NoIndex
  /\ call = NoCall
  /\ deploy = NoDeploy

\* With one capture the outer queue never waits, so 1 and MinInner give the
\* same run; with several captures of at most one reference each the inner
\* queue never waits, so MinInner and MaxInner + 1 give the same run.  Each
\* such pair is explored once.
Distinguishable(concurrency, ncaps) ==
  /\ ncaps <= 1 => concurrency # MinInner
  /\ ncaps > 1 => concurrency # MaxInner + 1

\* Worlds with page references: the queues, the retries, the collisions.
\* includeExternal is varied where the page has a reference it applies to.
InitAssets ==
  /\ opts \in [concurrency : ConcurrencyValues, includeExternal : BOOLEAN,
               debug : BOOLEAN, rewrite : {FALSE}, interactive : {FALSE}]
  /\ \E w \in Worlds : rows = w.rows /\ site = w.site
  /\ opts.includeExternal => HasExternal(site, RootUrl)
  /\ opts.debug => Len(site) <= 1
  /\ Distinguishable(opts.concurrency, Len(rows) - 1)

\* Worlds without page references: every combination of the options.
InitOptions ==
  /\ opts \in [concurrency : {1, MinInner}, includeExternal : {FALSE},
               debug : BOOLEAN, rewrite : BOOLEAN, interactive : BOOLEAN]
  /\ \E w \in Worlds : rows = w.rows /\ site = w.site
  /\ site = <<>>

Init == (InitAssets \/ InitOptions) /\ InitRest

Fixed == UNCHANGED <<opts, rows, site, run, prevFiles, prevFailed, index, call, deploy>>
Alive == main = "queue"
Fault(n) == faults + n <= MaxFaults /\ faults' = faults + n

\* ----------------------------------------------------------- the main flow
\* res.statusText of the answers explored.
StatusText(status) ==
  CASE status = 200 -> "OK"
    [] status = 299 -> ""
    [] status = 300 -> "Multiple Choices"
    [] status = 503 -> "Service Unavailable"

\* new Error(`CDX query failed: ${res.status} ${res.statusText}`)
CdxError(status, statusText) ==
  <<[kind |-> "cdx", status |-> status, statusText |-> statusText]>>

\* Mutant of TimestampChoices: one choice per capture.
TimestampChoices_All(caps) == [k \in 1..Len(caps) |-> caps[k].timestamp]

\* Array.from(new Set(captures.map((c) => c.timestamp))).sort()
TimestampChoices(caps) ==
  LET distinct == {caps[k].timestamp : k \in 1..Len(caps)}
      Listed(ts) == ts \in distinct
  IN SelectSeq(<<T1, T2>>, Listed)

\* Mutant of CdxResponse: the index query is retried like a download.
CdxResponse_Retry ==
  /\ main = "cdx"
  /\ \E status \in Statuses :
       IF IsOk(status)
       THEN LET caps == ParseRows(rows) IN
            /\ IF opts.interactive
               THEN /\ Commit([Cur EXCEPT !.main = "prompt", !.captures = caps])
                    /\ index' = [index EXCEPT !.choices = TimestampChoices(caps)]
               ELSE Commit(Launch(Cur, caps)) /\ UNCHANGED index
            /\ UNCHANGED faults
       ELSE /\ IF index.gets < MaxAttempts
               THEN Commit(Cur) /\ index' = [index EXCEPT !.gets = @ + 1]
               ELSE /\ Commit([Cur EXCEPT !.main = "failed"])
                    /\ index' = [index EXCEPT !.err = CdxError(status, StatusText(status))]
            /\ Fault(1)
  /\ UNCHANGED <<opts, rows, site, run, prevFiles, prevFailed, call, deploy>>

\* listCaptures: the index answered.
CdxResponse ==
  /\ main = "cdx"
  /\ \E status \in Statuses :
       IF IsOk(status)
       THEN LET caps == ParseRows(rows) IN
            /\ IF opts.interactive
               THEN /\ Commit([Cur EXCEPT !.main = "prompt", !.captures = caps])
                    /\ index' = [index EXCEPT !.choices = TimestampChoices(caps)]
               ELSE Commit(Launch(Cur, caps)) /\ UNCHANGED index
            /\ UNCHANGED faults
       ELSE /\ Commit([Cur EXCEPT !.main = "failed"])
            /\ index' = [index EXCEPT !.err = CdxError(status, StatusText(status))]
            /\ Fault(1)
  /\ UNCHANGED <<opts, rows, site, run, prevFiles, prevFailed, call, deploy>>

\* The timestamp prompt answered: one of the choices, or nothing.
PromptAnswer ==
  /\ main = "prompt"
  /\ \/ \E k \in 1..Len(index.choices) :
          LET selectedTs == index.choices[k]
              Chosen(c) == c.timestamp = selectedTs
          IN Commit(Launch(Cur, SelectSeq(captures, Chosen)))
     \/ Commit([Cur EXCEPT !.main = "exit"])
  /\ UNCHANGED faults
  /\ Fixed

\* ----------------------------------------------------------- the page step
PageAt(i, pc) == Alive /\ i \in SnapIds(Cur) /\ snap[i].pc = "page" /\ task[<<i, 0>>].pc = pc

\* The content-type header of the page response; the code reads it only
\* when opts.debug is unset and opts.rewrite is set.
HeaderRead == IF ~opts.debug /\ opts.rewrite THEN ContentTypes ELSE {""}

PageMkdirDone(i) ==
  /\ PageAt(i, "mkdir")
  /\ \E crash \in BOOLEAN :
       LET s1 == MkdirDoneT(Cur, <<i, 0>>) IN
       IF s1.task[<<i, 0>>].pc = "failed"
       THEN Commit(Reject(s1, i, s1.task[<<i, 0>>].err, crash))
       ELSE ~crash /\ Commit(s1)
  /\ UNCHANGED faults
  /\ Fixed

PageResponse(i) ==
  /\ PageAt(i, "get")
  /\ \E status \in Statuses, ctype \in HeaderRead, crash \in BOOLEAN :
       LET s1 == ResponseT(Cur, <<i, 0>>, status, ctype) IN
       /\ IF IsOk(status) THEN UNCHANGED faults ELSE Fault(1)
       /\ IF s1.task[<<i, 0>>].pc = "failed"
          THEN Commit(Reject(s1, i, s1.task[<<i, 0>>].err, crash))
          ELSE ~crash /\ Commit(s1)
  /\ Fixed

PageTimer(i) ==
  /\ PageAt(i, "backoff")
  /\ Commit(TimerT(Cur, <<i, 0>>))
  /\ UNCHANGED faults
  /\ Fixed

\* fetch itself rejected, or the body stream broke while being written.
PageTransportError(i) ==
  /\ PageAt(i, "get") \/ PageAt(i, "stream")
  /\ Fault(1)
  /\ \E crash \in BOOLEAN :
       LET s1 == FailT(Cur, <<i, 0>>, "transport")
       IN Commit(Reject(s1, i, s1.task[<<i, 0>>].err, crash))
  /\ Fixed

\* Mutant of PageStreamDone: the content type is not consulted.
PageStreamDone_AnyType(i) ==
  /\ PageAt(i, "stream")
  /\ LET s1 == SetTask(StreamDoneT(Cur, <<i, 0>>), <<i, 0>>,
                        [task[<<i, 0>>] EXCEPT !.pc = "ok", !.ctype = ""]) IN
     IF ~opts.debug /\ opts.rewrite
     THEN Commit(SetSnapPc(s1, i, "rwRead"))
     ELSE Commit(AfterPage(s1, i))
  /\ UNCHANGED faults
  /\ Fixed

PageStreamDone(i) ==
  /\ PageAt(i, "stream")
  /\ LET s1 == SetTask(StreamDoneT(Cur, <<i, 0>>), <<i, 0>>,
                        [task[<<i, 0>>] EXCEPT !.pc = "ok", !.ctype = ""]) IN
     IF ~opts.debug /\ opts.rewrite /\ IsHtmlType(task[<<i, 0>>].ctype)
     THEN Commit(SetSnapPc(s1, i, "rwRead"))
     ELSE Commit(AfterPage(s1, i))
  /\ UNCHANGED faults
  /\ Fixed

\* The optional rewrite: read the file, substitute, write it back.
RewriteRead(i) ==
  /\ Alive /\ i \in SnapIds(Cur) /\ snap[i].pc = "rwRead"
  /\ Commit(SetSnapPc(Cur, i, "rwWrite"))
  /\ UNCHANGED faults
  /\ Fixed

RewriteWrite(i) ==
  /\ Alive /\ i \in SnapIds(Cur) /\ snap[i].pc = "rwWrite"
  /\ Commit(AfterPage([Cur EXCEPT !.files[task[<<i, 0>>].dest].rewritten = TRUE], i))
  /\ UNCHANGED faults
  /\ Fixed

\* ---------------------------------------------------------- the debug block
DebugMkdir(i) ==
  /\ Alive /\ i \in SnapIds(Cur) /\ snap[i].pc = "dbgMkdir"
  /\ Commit(SetSnapPc(Cur, i, "dbgAppend"))
  /\ UNCHANGED faults
  /\ Fixed

\* Mutant of DebugAppend: the file is written anew instead of appended to.
DebugAppend_Overwrite(i) ==
  /\ Alive /\ i \in SnapIds(Cur) /\ snap[i].pc = "dbgAppend"
  /\ LET debugPath == <<OutRoot, captures[i].timestamp, "debug.json">>
         OtherFile(l) == l.path # debugPath
     IN Commit(SetSnapPc(
          [Cur EXCEPT !.debugLog =
             Append(SelectSeq(@, OtherFile),
                    [path |-> debugPath, line |-> captures[i], by |-> i])], i, "read"))
  /\ UNCHANGED faults
  /\ Fixed

DebugAppend(i) ==
  /\ Alive /\ i \in SnapIds(Cur) /\ snap[i].pc = "dbgAppend"
  /\ Commit(SetSnapPc(
       [Cur EXCEPT !.debugLog =
          Append(@, [path |-> <<OutRoot, captures[i].timestamp, "debug.json">>,
                     line |-> captures[i], by |-> i])], i, "read"))
  /\ UNCHANGED faults
  /\ Fixed

\* A filesystem operation awaited outside the final try block failed
\* (ensureDir, the rewrite's read or write, the debug append).
SnapFsError(i) ==
  /\ \/ PageAt(i, "mkdir")
     \/ Alive /\ i \in SnapIds(Cur) /\ snap[i].pc \in {"rwRead", "rwWrite", "dbgMkdir", "dbgAppend"}
  /\ Fault(1)
  /\ \E crash \in BOOLEAN : Commit(Reject(Cur, i, OtherError("fs"), crash))
  /\ Fixed

\* ------------------------------------------------- read-back and the assets
\* What fs.readFile returns for the page file: the body it holds, or a part
\* of it while the file is incomplete.
ReadableHtml(i) ==
  LET f == files[task[<<i, 0>>].dest]
      body == [k \in 1..Len(site) |-> [name |-> "src", value |-> <<Render(site[k])>>]]
  IN IF f.state = "complete" THEN {body}
     ELSE {SubSeq(body, 1, n) : n \in 0..Len(body)}

ReadBack(i) ==
  /\ Alive /\ i \in SnapIds(Cur) /\ snap[i].pc = "read"
  /\ existsSync(files, task[<<i, 0>>].dest)
  /\ \E html \in ReadableHtml(i) : Commit(QueueAssets(Cur, i, html))
  /\ UNCHANGED faults
  /\ Fixed

\* Mutant of ReadBackError: the failure is not caught.
ReadBackError_Throws(i) ==
  /\ Alive /\ i \in SnapIds(Cur) /\ snap[i].pc = "read"
  /\ Fault(1)
  /\ Commit(Reject([Cur EXCEPT !.snap[i].caught = OtherError("read")], i,
                   OtherError("read"), FALSE))
  /\ Fixed

\* The read or the parse failed: caught, the assets are skipped.
ReadBackError(i) ==
  /\ Alive /\ i \in SnapIds(Cur) /\ snap[i].pc = "read"
  /\ Fault(1)
  /\ Commit(Resolve([Cur EXCEPT !.snap[i].caught = OtherError("read")], i))
  /\ Fixed

AssetAt(i, j, pc) ==
  Alive /\ i \in SnapIds(Cur) /\ snap[i].pc = "assets" /\ j \in AssetIds(Cur, i)
        /\ task[<<i, j>>].pc = pc

AssetMkdirDone(i, j) ==
  /\ AssetAt(i, j, "mkdir")
  /\ LET s1 == MkdirDoneT(Cur, <<i, j>>) IN
     IF s1.task[<<i, j>>].pc = "failed"
     THEN Commit(AssetSettled(s1, i))
     ELSE Commit(s1)
  /\ UNCHANGED faults
  /\ Fixed

AssetResponse(i, j) ==
  /\ AssetAt(i, j, "get")
  /\ \E status \in Statuses :
       LET s1 == ResponseT(Cur, <<i, j>>, status, "") IN
       /\ IF IsOk(status) THEN UNCHANGED faults ELSE Fault(1)
       /\ IF s1.task[<<i, j>>].pc = "failed"
          THEN Commit(AssetSettled(s1, i))
          ELSE Commit(s1)
  /\ Fixed

AssetTimer(i, j) ==
  /\ AssetAt(i, j, "backoff")
  /\ Commit(TimerT(Cur, <<i, j>>))
  /\ UNCHANGED faults
  /\ Fixed

AssetTransportError(i, j) ==
  /\ AssetAt(i, j, "get") \/ AssetAt(i, j, "stream")
  /\ Fault(1)
  /\ Commit(AssetSettled(FailT(Cur, <<i, j>>, "transport"), i))
  /\ Fixed

AssetFsError(i, j) ==
  /\ AssetAt(i, j, "mkdir")
  /\ Fault(1)
  /\ Commit(AssetSettled(FailT(Cur, <<i, j>>, "fs"), i))
  /\ Fixed

\* Mutant of AssetStreamDone: a fetched page is scanned like the capture's
\* page and what it references is queued too.
AssetStreamDone_Scan(i, j) ==
  /\ AssetAt(i, j, "stream")
  /\ LET s1 == StreamDoneT(Cur, <<i, j>>)
         html == [k \in 1..Len(site) |-> [name |-> "href", value |-> <<Render(site[k])>>]]
         found == AssetsToFetch(html, CapOf(Cur, i), opts)
         more == IF ExtOf(OrigOf(Cur, <<i, j>>).path[Len(OrigOf(Cur, <<i, j>>).path)]) = ""
                    /\ Len(snap[i].assets) + Len(found) < MaxTasks
                 THEN found ELSE <<>>
         n == Len(snap[i].assets)
         s2 == [s1 EXCEPT !.snap[i].assets = @ \o more,
                          !.task = [t \in TaskIds |->
                                      IF t[1] = i /\ t[2] \in (n + 1)..(n + Len(more))
                                      THEN [NoTask EXCEPT !.pc = "queued"]
                                      ELSE @[t]]]
     IN Commit(AssetSettled(s2, i))
  /\ UNCHANGED faults
  /\ Fixed

AssetStreamDone(i, j) ==
  /\ AssetAt(i, j, "stream")
  /\ Commit(AssetSettled(StreamDoneT(Cur, <<i, j>>), i))
  /\ UNCHANGED faults
  /\ Fixed

\* ------------------------------------------------------------ a second run
\* The command is run again over the same output directory.
Rerun ==
  /\ main \in {"done", "crashed", "failed", "exit"}
  /\ run < MaxRuns
  /\ run' = run + 1
  /\ prevFiles' = DOMAIN files
  /\ prevFailed' = {task[t].dest : t \in {u \in TaskIds : /\ task[u].pc = "failed"
                                                         /\ task[u].bad = MaxAttempts}}
  /\ main' = "cdx"
  /\ captures' = <<>>
  /\ snap' = [i \in CapIds |-> NoSnap]
  /\ task' = [t \in TaskIds |-> NoTask]
  /\ index' = NoIndex
  /\ UNCHANGED <<opts, rows, site, files, debugLog, faults, call, deploy>>

Next ==
  \/ CdxResponse
  \/ PromptAnswer
  \/ \E i \in CapIds : PageMkdirDone(i)
  \/ \E i \in CapIds : PageResponse(i)
  \/ \E i \in CapIds : PageTimer(i)
  \/ \E i \in CapIds : PageTransportError(i)
  \/ \E i \in CapIds : PageStreamDone(i)
  \/ \E i \in CapIds : RewriteRead(i)
  \/ \E i \in CapIds : RewriteWrite(i)
  \/ \E i \in CapIds : DebugMkdir(i)
  \/ \E i \in CapIds : DebugAppend(i)
  \/ \E i \in CapIds : SnapFsError(i)
  \/ \E i \in CapIds : ReadBack(i)
  \/ \E i \in CapIds : ReadBackError(i)
  \/ \E i \in CapIds, j \in RefIds : AssetMkdirDone(i, j)
  \/ \E i \in CapIds, j \in RefIds : AssetResponse(i, j)
  \/ \E i \in CapIds, j \in RefIds : AssetTimer(i, j)
  \/ \E i \in CapIds, j \in RefIds : AssetTransportError(i, j)
  \/ \E i \in CapIds, j \in RefIds : AssetFsError(i, j)
  \/ \E i \in CapIds, j \in RefIds : AssetStreamDone(i, j)

Spec == Init /\ [][Next]_vars

\* The same command run again over one output directory, for the worlds
\* whose index lists at most one capture, of a page with room to spare.
InitRerun == Init /\ Len(rows) <= 2 /\ Len(site) + 2 <= MaxTasks

SpecRerun == InitRerun /\ [][Next \/ Rerun]_vars

\* ------------------------------------------- functions applied on their own
\* A text is a sequence of pieces: "P" stands for the literal
\* "http://web.archive.org/web/" or "https://web.archive.org/web/", "0" for a
\* digit, the others for themselves.
Chars == {"P", "0", "i", "d", "/", "_"}
Texts == UNION {[1..n -> Chars] : n \in 0..MaxLen}

At(text, k) == IF k \in 1..Len(text) THEN text[k] ELSE ""

\* [0-9]+ : the digits from position k on.
RECURSIVE DigitRun(_, _)
DigitRun(text, k) == IF At(text, k) = "0" THEN 1 + DigitRun(text, k + 1) ELSE 0

\* The length of the match of /https?:\/\/web\.archive\.org\/web\/[0-9]+id?\/_/
\* at position k, or 0.
MatchLen(text, k) ==
  LET n == DigitRun(text, k + 1)
      p == k + 1 + n
      q == IF At(text, p + 1) = "d" THEN p + 2 ELSE p + 1
  IN IF At(text, k) = "P" /\ n >= 1 /\ At(text, p) = "i"
        /\ At(text, q) = "/" /\ At(text, q + 1) = "_"
     THEN q + 2 - k
     ELSE 0

\* html.replace(regex, ''): every match, left to right, is dropped.
RECURSIVE ReplaceFrom(_, _)
ReplaceFrom(text, k) ==
  IF k > Len(text) THEN <<>>
  ELSE IF MatchLen(text, k) > 0 THEN ReplaceFrom(text, k + MatchLen(text, k))
  ELSE <<text[k]>> \o ReplaceFrom(text, k + 1)

RewriteHtml(html) == ReplaceFrom(html, 1)

\* Index bodies as any server may send them: rows in any order, repeated,
\* with or without the header row in front.
DataRows == {RowOf(Capture(T1, RootUrl)), RowOf(Capture(T2, RootUrl)),
             RowOf(Capture(T1, BlogUrl))}
RawBodies ==
  UNION {{body \in [1..n -> DataRows \cup {HeaderRow}] :
            \A k \in 2..n : body[k] \in DataRows} : n \in 0..MaxRows}

\* ------------------------------------------------------------ deploy mode
\* The config ensureVercelJson writes.
DefaultConfig == [version |-> 2, cleanUrls |-> TRUE, trailingSlash |-> FALSE]

\* Mutant of buildVercelArgs: --prod is pushed before --name.
buildVercelArgs_ProdFirst(deployDir, o) ==
  <<"deploy", deployDir, "--yes">>
    \o (IF o.prod = <<TRUE>> THEN <<"--prod">> ELSE <<>>)
    \o (IF o.name # <<>> /\ o.name[1] # "" THEN <<"--name", o.name[1]>> ELSE <<>>)

buildVercelArgs(deployDir, o) ==
  <<"deploy", deployDir, "--yes">>
    \o (IF o.name # <<>> /\ o.name[1] # "" THEN <<"--name", o.name[1]>> ELSE <<>>)
    \o (IF o.prod = <<TRUE>> THEN <<"--prod">> ELSE <<>>)

\* The process starts: the options are parsed, nothing has run.  The output
\* directory holds folders and files; a folder may hold a vercel.json.
InitDeploy ==
  /\ opts \in [deploy : BOOLEAN, select : {<<>>, <<"">>, <<T1>>, <<T2>>},
               name : {<<>>, <<"">>, <<"proj">>}, prod : {<<>>, <<TRUE>>, <<FALSE>>}]
  /\ rows = <<HeaderRow>> /\ site = <<>>
  /\ run = 1 /\ prevFiles = {} /\ prevFailed = {} /\ main = "start" /\ captures = <<>>
  /\ snap = [i \in CapIds |-> NoSnap] /\ task = [t \in TaskIds |-> NoTask]
  /\ files = <<>> /\ debugLog = <<>> /\ faults = 0
  /\ index = [NoIndex EXCEPT !.gets = 0] /\ call = NoCall
  /\ \E loggedIn \in BOOLEAN,
        entries \in {{}, {[name |-> T1, isDirectory |-> TRUE]},
                     {[name |-> T2, isDirectory |-> FALSE]},
                     {[name |-> T1, isDirectory |-> TRUE], [name |-> T2, isDirectory |-> FALSE]},
                     {[name |-> T1, isDirectory |-> TRUE], [name |-> T2, isDirectory |-> TRUE]}},
        vjson \in [Timestamps -> {<<>>, <<[version |-> 2, custom |-> TRUE]>>}] :
       /\ \A e \in entries : ~e.isDirectory => vjson[e.name] = <<>>
       /\ \A ts \in Timestamps : vjson[ts] # <<>> => \E e \in entries : e.name = ts
       /\ deploy = [NoDeploy EXCEPT !.loggedIn = loggedIn, !.entries = entries,
                                    !.vjson = vjson]

DeployFrame ==
  UNCHANGED <<opts, rows, site, prevFiles, prevFailed, captures, snap, task, files, debugLog, faults, call>>

\* index.ts: deploy mode calls deployWithVercel, which awaits `vercel whoami`;
\* otherwise the download flow sends the index query.
Start ==
  /\ main = "start"
  /\ IF opts.deploy
     THEN /\ main' = "deploy"
          /\ deploy' = [deploy EXCEPT !.pc = "whoami", !.steps = <<"login">>]
          /\ UNCHANGED index
     ELSE /\ main' = "cdx"
          /\ index' = [index EXCEPT !.gets = 1]
          /\ UNCHANGED deploy
  /\ UNCHANGED run
  /\ DeployFrame

\* ensureVercelLoggedIn: whoami fails when nobody is logged in; the error is
\* caught in index.ts, which exits with status 1.
WhoamiDone ==
  /\ main = "deploy" /\ deploy.pc = "whoami"
  /\ IF deploy.loggedIn
     THEN /\ deploy' = [deploy EXCEPT !.pc = "readdir", !.steps = Append(@, "select")]
          /\ UNCHANGED main
     ELSE /\ deploy' = [deploy EXCEPT !.pc = "failed", !.err = "not logged in"]
          /\ main' = "failed"
  /\ UNCHANGED <<run, index>>
  /\ DeployFrame

\* Mutant of ReaddirDone: entries that are not folders are listed too.
ReaddirDone_AnyEntry ==
  /\ main = "deploy" /\ deploy.pc = "readdir"
  /\ \E ok \in BOOLEAN :
       LET entries == IF ok THEN deploy.entries ELSE {}
           names == {e.name : e \in entries}
           Listed(ts) == ts \in names
           tsDirs == SelectSeq(<<T1, T2>>, Listed)
           Enter(ts) == [deploy EXCEPT !.pc = "json", !.selected = <<ts>>,
                                       !.steps = Append(@, "vercel.json")]
       IN IF tsDirs = <<>>
          THEN /\ deploy' = [deploy EXCEPT !.pc = "failed", !.err = "no snapshots"]
               /\ main' = "failed"
          ELSE IF opts.select # <<>> /\ opts.select[1] # ""
          THEN IF Listed(opts.select[1])
               THEN deploy' = Enter(opts.select[1]) /\ UNCHANGED main
               ELSE /\ deploy' = [deploy EXCEPT !.pc = "failed", !.err = "not found"]
                    /\ main' = "failed"
          ELSE /\ deploy' = [deploy EXCEPT !.pc = "prompt", !.choices = tsDirs]
               /\ UNCHANGED main
  /\ UNCHANGED <<run, index>>
  /\ DeployFrame

\* selectTimestampFolder: readdir answered (a failure reads as no entry); the
\* folders' names, sorted; then --select is looked up or the prompt is shown.
\* A folder found starts ensureVercelJson.
ReaddirDone ==
  /\ main = "deploy" /\ deploy.pc = "readdir"
  /\ \E ok \in BOOLEAN :
       LET entries == IF ok THEN deploy.entries ELSE {}
           names == {e.name : e \in {d \in entries : d.isDirectory}}
           Listed(ts) == ts \in names
           tsDirs == SelectSeq(<<T1, T2>>, Listed)
           Enter(ts) == [deploy EXCEPT !.pc = "json", !.selected = <<ts>>,
                                       !.steps = Append(@, "vercel.json")]
       IN IF tsDirs = <<>>
          THEN /\ deploy' = [deploy EXCEPT !.pc = "failed", !.err = "no snapshots"]
               /\ main' = "failed"
          ELSE IF opts.select # <<>> /\ opts.select[1] # ""
          THEN IF Listed(opts.select[1])
               THEN deploy' = Enter(opts.select[1]) /\ UNCHANGED main
               ELSE /\ deploy' = [deploy EXCEPT !.pc = "failed", !.err = "not found"]
                    /\ main' = "failed"
          ELSE /\ deploy' = [deploy EXCEPT !.pc = "prompt", !.choices = tsDirs]
               /\ UNCHANGED main
  /\ UNCHANGED <<run, index>>
  /\ DeployFrame

\* The folder prompt answered: one of the folders, or nothing.
SelectAnswer ==
  /\ main = "deploy" /\ deploy.pc = "prompt"
  /\ \/ \E k \in 1..Len(deploy.choices) :
          /\ deploy' = [deploy EXCEPT !.pc = "json", !.selected = <<deploy.choices[k]>>,
                                      !.steps = Append(@, "vercel.json")]
          /\ UNCHANGED main
     \/ /\ deploy' = [deploy EXCEPT !.pc = "failed", !.err = "no selection"]
        /\ main' = "failed"
  /\ UNCHANGED <<run, index>>
  /\ DeployFrame

\* Mutant of VercelJsonDone: the config is written whether the file exists
\* or not.
VercelJsonDone_Overwrite ==
  /\ main = "deploy" /\ deploy.pc = "json"
  /\ LET ts == deploy.selected[1]
         deployDir == <<OutRoot, ts>>
     IN \E ok \in BOOLEAN :
          IF ok
          THEN /\ deploy' = [deploy EXCEPT !.vjson[ts] = <<DefaultConfig>>, !.wrote = TRUE,
                                           !.pc = "exec", !.steps = Append(@, "deploy"),
                                           !.cmd = <<buildVercelArgs(deployDir, opts)>>]
               /\ UNCHANGED main
          ELSE /\ deploy' = [deploy EXCEPT !.pc = "failed", !.err = "write failed"]
               /\ main' = "failed"
  /\ UNCHANGED <<run, index>>
  /\ DeployFrame

\* ensureVercelJson returned or threw: an existing vercel.json is left alone,
\* a missing one is written (the write may fail); after it the deploy command
\* is built and started.
VercelJsonDone ==
  /\ main = "deploy" /\ deploy.pc = "json"
  /\ LET ts == deploy.selected[1]
         deployDir == <<OutRoot, ts>>
         Exec(d) == [d EXCEPT !.pc = "exec", !.steps = Append(@, "deploy"),
                              !.cmd = <<buildVercelArgs(deployDir, opts)>>]
     IN IF deploy.vjson[ts] # <<>>
        THEN deploy' = Exec(deploy) /\ UNCHANGED main
        ELSE \E ok \in BOOLEAN :
               IF ok
               THEN /\ deploy' = Exec([deploy EXCEPT !.vjson[ts] = <<DefaultConfig>>,
                                                      !.wrote = TRUE])
                    /\ UNCHANGED main
               ELSE /\ deploy' = [deploy EXCEPT !.pc = "failed", !.err = "write failed"]
                    /\ main' = "failed"
  /\ UNCHANGED <<run, index>>
  /\ DeployFrame

\* `vercel deploy ...` ended.
DeployDone ==
  /\ main = "deploy" /\ deploy.pc = "exec"
  /\ \E ok \in BOOLEAN :
       IF ok
       THEN deploy' = [deploy EXCEPT !.pc = "done"] /\ main' = "done"
       ELSE deploy' = [deploy EXCEPT !.pc = "failed", !.err = "deploy failed"] /\ main' = "failed"
  /\ UNCHANGED <<run, index>>
  /\ DeployFrame

\* The same command line is run again over the same output directory.
Redeploy ==
  /\ opts.deploy /\ main \in {"done", "failed"}
  /\ run < MaxRuns
  /\ run' = run + 1
  /\ main' = "start"
  /\ deploy' = [NoDeploy EXCEPT !.loggedIn = deploy.loggedIn, !.entries = deploy.entries,
                                !.vjson = deploy.vjson]
  /\ UNCHANGED index
  /\ DeployFrame

NextDeploy ==
  \/ Start
  \/ WhoamiDone
  \/ ReaddirDone
  \/ SelectAnswer
  \/ VercelJsonDone
  \/ DeployDone
  \/ Redeploy

SpecDeploy == InitDeploy /\ [][NextDeploy]_vars

PureFrame ==
  UNCHANGED <<opts, rows, site, run, prevFiles, prevFailed, main, captures, snap, task,
              files, debugLog, faults, index, deploy>>

\* buildCdxUrl.  A string is a sequence of pieces, each reserved character a
\* piece of its own; an optional field is <<>> when unset and <<value>> when
\* set.
TruthyString(o) == o # <<>> /\ o[1] # <<>>

\* Mutant of FormEncode: the value goes into the query as it is.
FormEncode_Verbatim(str) == str

\* application/x-www-form-urlencoded, as URLSearchParams serialises.
FormEncode(str) ==
  LET Char(c) == CASE c = ":" -> "%3A"
                   [] c = "/" -> "%2F"
                   [] c = "?" -> "%3F"
                   [] c = "&" -> "%26"
                   [] c = "=" -> "%3D"
                   [] c = "," -> "%2C"
                   [] c = " " -> "+"
                   [] OTHER -> c
  IN [k \in 1..Len(str) |-> Char(str[k])]

buildCdxUrl(rootUrl, o) ==
  LET base == <<"https", ":", "/", "/", "web.archive.org", "/", "cdx", "/", "search", "/", "cdx">>
      Param(key, value) == [key |-> key, value |-> value]
      p0 == <<Param(<<"url">>, rootUrl),
              Param(<<"output">>, <<"json">>),
              Param(<<"filter">>, <<"statuscode", ":", "200">>),
              Param(<<"fl">>, <<"timestamp", ",", "original", ",", "mimetype">>),
              Param(<<"matchType">>, <<"exact">>)>>
      p1 == IF ~(o.noDedup = <<TRUE>>)
            THEN Append(p0, Param(<<"collapse">>, <<"digest">>)) ELSE p0
      p2 == IF TruthyString(o.from) THEN Append(p1, Param(<<"from">>, o.from[1])) ELSE p1
      p3 == IF TruthyString(o.to) THEN Append(p2, Param(<<"to">>, o.to[1])) ELSE p2
      RECURSIVE Serialize(_)
      Serialize(params) ==
        IF params = <<>> THEN <<>>
        ELSE LET one == FormEncode(Head(params).key) \o <<"=">>
                          \o FormEncode(Head(params).value)
             IN IF Tail(params) = <<>> THEN one
                ELSE one \o <<"&">> \o Serialize(Tail(params))
  IN base \o <<"?">> \o Serialize(p3)

RootStrings ==
  {<<"https", ":", "/", "/", "example.com">>,
   <<"http", ":", "/", "/", "example.com", "/", "a b">>,
   <<"https", ":", "/", "/", "example.com", "/", "a", "?", "x", "=", "1", "&", "to", "=", "2">>}

CdxOptions ==
  LET dates == {<<>>, <<<<>>>>, <<<<"20190101">>>>, <<<<"20201231">>>>}
  IN [noDedup : {<<>>, <<TRUE>>, <<FALSE>>}, from : dates, to : dates]

ApplyBuildCdxUrl ==
  /\ call.fn = "none"
  /\ \E rootUrl \in RootStrings, o \in CdxOptions :
       call' = [fn |-> "buildCdxUrl", arg |-> <<rootUrl, o>>, ret |-> buildCdxUrl(rootUrl, o)]
  /\ PureFrame

ApplyRewrite ==
  /\ call.fn = "none"
  /\ \E html \in Texts :
       call' = [fn |-> "rewrite", arg |-> html, ret |-> RewriteHtml(html)]
  /\ PureFrame

ApplyListCaptures ==
  /\ call.fn = "none"
  /\ \E body \in RawBodies :
       call' = [fn |-> "listCaptures", arg |-> body, ret |-> ParseRows(body)]
  /\ PureFrame

InitPure ==
  /\ opts = [concurrency |-> 1, includeExternal |-> FALSE, debug |-> FALSE,
             rewrite |-> TRUE, interactive |-> FALSE]
  /\ rows = <<HeaderRow>>
  /\ site = <<>>
  /\ InitRest

\* program.opts() for a command line.  A negatable option --no-x is stored
\* under the key x, true unless the flag is given (index.ts reads
\* opts.interactive that way); a boolean option is absent unless given.
getOpts(argv) ==
  LET given == {argv[k] : k \in 1..Len(argv)}
      negatable == [interactive |-> ~("--no-interactive" \in given),
                    dedup |-> ~("--no-dedup" \in given)]
      rewrite == IF "--rewrite" \in given THEN [rewrite |-> TRUE] ELSE <<>>
  IN negatable @@ rewrite

CommandLines ==
  {<<>>, <<"--no-dedup">>, <<"--no-interactive">>, <<"--rewrite">>,
   <<"--no-interactive", "--no-dedup">>, <<"--no-dedup", "--rewrite">>}

\* index.ts: opts = getOpts(), then listCaptures(rootUrl, opts) builds the
\* query from the fields of opts it reads; a missing field reads as undefined.
ApplyCli ==
  /\ call.fn = "none"
  /\ \E argv \in CommandLines, rootUrl \in RootStrings :
       LET o == getOpts(argv)
           Field(key) == IF key \in DOMAIN o THEN <<o[key]>> ELSE <<>>
       IN call' = [fn |-> "cli", arg |-> <<argv, rootUrl>>,
                   ret |-> buildCdxUrl(rootUrl, [noDedup |-> Field("noDedup"),
                                                 from |-> <<>>, to |-> <<>>])]
  /\ PureFrame

\* Original URLs: schemes, hosts, paths, query strings and fragments combined.
UrlPool ==
  LET names == {"a.png", "A.PNG", "a.jpg", "a.jpeg", "a.gif", "a.webp", "a.svg", "a.ico",
                "a.bmp", "a.tif", "a.tiff", "b.js", "B.JS", "c.css", "C.Css",
                "index.html", "blog"}
      paths == {<<>>, <<"/">>, <<"/", "docs", "/">>, <<"/", "docs", "/", "/", "a.png">>}
                 \cup {<<"/", n>> : n \in names}
      plain == {Url(scheme, host, path, query) :
                  scheme \in {"https", "http"}, host \in {"example.com", "example.png"},
                  path \in paths, query \in {"", "v=2", "b.js"}}
  IN plain \cup {u @@ [fragment |-> f] : u \in plain, f \in {"top", "a.png"}}

ApplyTargetPath ==
  /\ call.fn = "none"
  /\ \E u \in UrlPool, ts \in Timestamps :
       LET cap == [timestamp |-> ts, original |-> u] IN
       call' = [fn |-> "targetPath", arg |-> <<cap>>, ret |-> targetPath(OutRoot, cap)]
  /\ PureFrame

ApplyWaybackUrlFor ==
  /\ call.fn = "none"
  /\ \E u \in UrlPool, ts \in Timestamps :
       call' = [fn |-> "waybackUrlFor", arg |-> <<u, ts>>, ret |-> waybackUrlFor(u, ts)]
  /\ PureFrame

\* Attributes of a page: references in every form, and srcset values with
\* one or two descriptors, a trailing comma, a data: URL and a line break.
AttrPool ==
  LET Sp == <<" ">>
      Comma == <<",">>
      rootPng == <<"/", "a.png">>
      rootJs == <<"/", "b.js">>
      data == <<"data", ":", "image/png;base64">>
      script == <<"javascript", ":", "void(0)">>
      words == {Render(APng), rootPng, <<"about", "/">>, <<"/", "/", "cdn.net", "/", "a.png">>,
                data, script, <<"mailto", ":", "a@b.c">>, <<"https", ":", "/", "/">>,
                <<"ftp", ":", "/", "/", "example.com", "/", "a.png">>,
                <<"a.png", "#", "top">>}
      srcsets == {<<rootPng, Sp, <<"1x">>, Comma, Sp, rootJs, Sp, <<"2x">>>>,
                  <<<<"a.png">>, Sp, <<"200w">>>>,
                  <<rootPng, Sp, <<"1x">>, Comma>>,
                  <<rootPng, Comma, data, Comma, <<"AAAA">>, Sp, <<"2x">>, Comma, rootPng>>,
                  <<rootPng, Sp, <<"1x">>, Comma, <<"\n">>, Sp, rootJs, Sp, <<"2x">>>>}
  IN {[name |-> "src", value |-> <<w>>] : w \in words}
     \cup {[name |-> "href", value |-> <<rootJs>>], [name |-> "src", value |-> <<>>],
           [name |-> "data-src", value |-> <<rootJs>>], [name |-> "alt", value |-> <<rootJs>>]}
     \cup {[name |-> "srcset", value |-> v] : v \in srcsets}

PageBase == Url("https", "example.com", <<"/", "page", "/", "index.html">>, "")

ApplyExtractAssetUrls ==
  /\ call.fn = "none"
  /\ \E n \in 0..MaxAttrs, baseUrl \in {RootUrl, PageBase} :
       \E html \in [1..n -> AttrPool] :
         call' = [fn |-> "extractAssetUrls", arg |-> <<html, baseUrl>>,
                  ret |-> extractAssetUrls(html, baseUrl)]
  /\ PureFrame

NextPure ==
  \/ ApplyRewrite
  \/ ApplyListCaptures
  \/ ApplyBuildCdxUrl
  \/ ApplyCli
  \/ ApplyTargetPath
  \/ ApplyWaybackUrlFor
  \/ ApplyExtractAssetUrls

SpecPure == InitPure /\ [][NextPure]_vars

\* ------------------------------------------------------------------ claims
Started == {t \in TaskIds : task[t].saw # "unchecked"}
IsHttpError(t) == task[t].err # <<>> /\ task[t].err[1].kind = "http"
\* The task got a 2xx response, so it opened its destination for writing.
Wrote(t) == task[t].wrote

\* C1: a download whose destination exists when it starts issues no GET; in a
\* later run over the same output directory no GET is issued for any
\* destination that existed when that run began.
C1_ResumeSkipsExisting ==
  \A t \in Started :
    /\ task[t].saw = "present" => task[t].gets = 0 /\ task[t].pc = "skipped"
    /\ task[t].dest \in prevFiles => task[t].gets = 0

C1_Witness ==
  /\ run = 2
  /\ \E t, u \in Started :
       /\ t[2] = 0 /\ u[2] # 0
       /\ task[t].dest \in prevFiles /\ task[u].dest \in prevFiles
       /\ task[t].pc = "skipped" /\ task[u].pc = "skipped"

\* C2: a single-resource download issues at most 3 GETs, issues none after
\* its first 2xx response (whose body goes to the destination file), and fails
\* with an error carrying a non-2xx status and the replay URL exactly when it
\* got three non-2xx responses.
C2_AtMostThreeGets ==
  \A t \in Started :
    /\ task[t].gets <= 3
    /\ Wrote(t) => /\ task[t].gets = task[t].bad + 1
                   /\ task[t].pc \in {"stream", "ok", "failed"}
                   /\ existsSync(files, task[t].dest)
    /\ IsHttpError(t) <=> task[t].bad = 3
    /\ IsHttpError(t) =>
         /\ task[t].pc = "failed" /\ task[t].gets = 3
         /\ task[t].err[1].status \in {300, 503}
         /\ task[t].err[1].url = ReplayOf(Cur, t)

C2_Witness ==
  \E t, u \in Started :
    /\ IsHttpError(t) /\ task[t].err[1].status = 503
    /\ task[u].pc = "ok" /\ t[2] = 0 /\ u[2] # 0

\* C3: the waits of a download are 1000 ms after the first non-2xx response
\* and 2000 ms after the second, each before the next GET; none follows the
\* third attempt or a 2xx response.
C3_LinearBackoff ==
  \A t \in Started :
    /\ Len(task[t].waits) = (IF task[t].bad < 2 THEN task[t].bad ELSE 2)
    /\ \A k \in 1..Len(task[t].waits) : task[t].waits[k] = 1000 * k
    /\ task[t].gets <= Len(task[t].waits) + 1
    /\ task[t].pc = "backoff" => task[t].gets = Len(task[t].waits)

C3_Witness ==
  \E t \in Started :
    task[t].waits = <<1000, 2000>> /\ task[t].bad = 3 /\ task[t].pc = "failed"

\* C4: once the page step is over, no asset outcome makes downloadSnapshot
\* throw, and by the time it returns every asset of the fetch set has been
\* attempted, whatever happened to the others.
C4_AssetFailureSwallowed ==
  \A i \in SnapIds(Cur) :
    /\ snap[i].pc = "rejected" => \A j \in RefIds : task[<<i, j>>].pc = "none"
    /\ snap[i].pc = "resolved" =>
         \A j \in AssetIds(Cur, i) :
           task[<<i, j>>].pc \in SettledPcs /\ task[<<i, j>>].saw # "unchecked"

C4_Witness ==
  \E i \in SnapIds(Cur) :
    /\ snap[i].pc = "resolved"
    /\ \E j, k \in AssetIds(Cur, i) :
         /\ IsHttpError(<<i, j>>)
         /\ j < k /\ task[<<i, k>>].pc = "ok"

\* C5: a capture whose page got three non-2xx responses is rejected, with no
\* debug line, no asset task and no progress tick of its own; and when the
\* run has ended every other capture has been processed.
PageFailed(i) == snap[i].pc = "rejected" /\ IsHttpError(<<i, 0>>)

C5_PageFailureIsLocal ==
  \A i \in SnapIds(Cur) :
    PageFailed(i) =>
      /\ \A k \in 1..Len(debugLog) : debugLog[k].by # i
      /\ \A j \in RefIds : task[<<i, j>>].pc = "none"
      /\ snap[i].ticks = 0
      /\ main \in {"done", "crashed"} =>
           \A k \in SnapIds(Cur) : snap[k].pc \in SnapSettledPcs

\* C6 as stated: of the downloads of one run for distinct URLs that share a
\* destination, at most one issues a GET.
C6_ExactlyOneFetches ==
  \A t, u \in Started :
    (OrigOf(Cur, t) # OrigOf(Cur, u) /\ task[t].dest = task[u].dest) =>
      ~(task[t].gets > 0 /\ task[u].gets > 0)

\* C6, amended: a download whose existence check finds the file is skipped
\* without a GET or a write; only downloads whose checks all ran before the
\* file was first created fetch it, and each of those writes it.
C6_LateWriterSkipped ==
  \A t, u \in Started :
    (t # u /\ task[t].dest = task[u].dest) =>
      /\ (Wrote(t) /\ task[u].saw = "present") => (task[u].gets = 0 /\ ~Wrote(u))
      /\ (task[t].gets > 0 /\ task[u].gets > 0) =>
           (task[t].saw = "absent" /\ task[u].saw = "absent")

C6_Witness ==
  \E t, u, v \in Started :
    /\ t[2] # 0 /\ u[2] # 0 /\ v[2] # 0 /\ t[1] = u[1] /\ u[1] = v[1]
    /\ t # u /\ u # v /\ t # v
    /\ task[t].dest = task[u].dest /\ task[u].dest = task[v].dest
    /\ Wrote(t) /\ Wrote(u) /\ task[v].pc = "skipped"

\* C7: two downloads under one timestamp share a destination path only if
\* they are the same resource (same host and path).
SameResource(a, b) == a.host = b.host /\ a.path = b.path

C7_DistinctDestinations ==
  \A t, u \in Started :
    (CapOf(Cur, t[1]).timestamp = CapOf(Cur, u[1]).timestamp
       /\ task[t].dest = task[u].dest) =>
      SameResource(OrigOf(Cur, t), OrigOf(Cur, u))

C9_OuterBound ==
  main \in {"queue", "done", "crashed"} =>
    /\ \A i \in CapIds : (snap[i].pc # "none") <=> (i \in SnapIds(Cur))
    /\ Cardinality(OuterRunning(Cur)) <= opts.concurrency
    /\ \A i \in SnapIds(Cur) :
         (snap[i].pc # "queued" /\ i > opts.concurrency) =>
           /\ snap[i].slotFrom \in SnapIds(Cur)
           /\ snap[snap[i].slotFrom].pc \in SnapSettledPcs

C9_Witness ==
  \E i \in SnapIds(Cur) :
    /\ i > opts.concurrency /\ snap[i].pc \in SnapRunningPcs
    /\ \E k \in SnapIds(Cur) : snap[k].pc = "resolved"

\* C10: never more than options.concurrency GETs (of pages and assets, over
\* all captures) are in flight.
InFlight == {t \in TaskIds : task[t].pc \in {"get", "stream"}}

C10_GlobalBound == Cardinality(InFlight) <= opts.concurrency

\* C11: a capture's tick fires only once every asset task of its inner queue
\* has settled; a capture whose downloadSnapshot completed has exactly one
\* tick, and any other capture, a failed one included, has none.
C11_TickAfterAssets ==
  \A i \in SnapIds(Cur) :
    /\ snap[i].ticks = (IF snap[i].pc = "resolved" THEN 1 ELSE 0)
    /\ snap[i].ticks > 0 =>
         \A j \in RefIds :
           task[<<i, j>>].pc \in (IF j <= Len(snap[i].assets) THEN SettledPcs ELSE {"none"})

C11_Witness ==
  \E i, k \in SnapIds(Cur) :
    /\ snap[i].pc = "resolved" /\ snap[i].ticks = 1
    /\ \E j \in AssetIds(Cur, i) : task[<<i, j>>].pc = "ok"
    /\ snap[k].pc = "rejected" /\ snap[k].ticks = 0

\* C12: the fetch set of a capture holds, once each, the discovered asset
\* URLs of the page text read back: all of them when includeExternal is set,
\* else those on the capture's hostname; without includeExternal no download
\* is started for a URL on another hostname.
C12_FetchSet ==
  \A i \in SnapIds(Cur) :
    LET host == captures[i].original.host
        fetchSet == {snap[i].assets[j] : j \in 1..Len(snap[i].assets)}
        Wanted(n) == {ResolveUrl(Render(site[k]), captures[i].original)[1] :
                        k \in {m \in 1..n : /\ site[m].scheme \in {"http", "https"}
                                             /\ \/ opts.includeExternal
                                                \/ site[m].host = host}}
        alone == \A k \in SnapIds(Cur) : k # i => targetPath(OutRoot, captures[k])
                                                     # targetPath(OutRoot, captures[i])
    IN /\ Cardinality(fetchSet) = Len(snap[i].assets)
       /\ \E n \in 0..Len(site) : fetchSet = Wanted(n)
       /\ (snap[i].pc \in {"assets", "resolved"} /\ snap[i].caught = <<>> /\ alone)
            => fetchSet = Wanted(Len(site))
       /\ ~opts.includeExternal =>
            \A j \in RefIds : task[<<i, j>>].pc # "none" => OrigOf(Cur, <<i, j>>).host = host

C12_Witness ==
  \E i \in SnapIds(Cur) :
    /\ ~opts.includeExternal /\ snap[i].pc = "resolved"
    /\ \E k \in 1..Len(site) : site[k].host # captures[i].original.host
    /\ Len(snap[i].assets) = 2
    /\ \A j \in AssetIds(Cur, i) : task[<<i, j>>].pc \in {"ok", "skipped"}

\* C13 as stated: once downloadSnapshot has returned for a capture whose page
\* GET succeeded, the page file exists, and every same-hostname asset the
\* page references has a file at its targetPath unless its GET did not
\* succeed within 3 attempts.
GetDidNotSucceed(t) == task[t].pc = "failed" /\ task[t].gets > 0 /\ ~Wrote(t)

C13_EndToEnd ==
  \A i \in SnapIds(Cur) :
    (snap[i].pc = "resolved" /\ Wrote(<<i, 0>>)) =>
      /\ existsSync(files, targetPath(OutRoot, captures[i]))
      /\ \A k \in 1..Len(site) :
           (site[k].scheme \in {"http", "https"}
              /\ site[k].host = captures[i].original.host) =>
             \/ existsSync(files, targetPath(OutRoot, [timestamp |-> captures[i].timestamp,
                                                        original |-> site[k]]))
             \/ \E j \in AssetIds(Cur, i) :
                  snap[i].assets[j] = site[k] /\ GetDidNotSucceed(<<i, j>>)

\* The same with no failure injected at all: the index, every page and every
\* asset answer 2xx and every filesystem call but the blocked mkdir succeeds.
C13_EndToEndNoFault == faults = 0 => C13_EndToEnd

\* C14: downloadSnapshot starts the rewrite of the page file exactly when its
\* own page GET was answered 2xx with an HTML content type and the body has
\* been streamed, options.rewrite is set and options.debug is not; the page
\* file is marked rewritten only by an invocation that started the rewrite.
PageStreamed(i) ==
  snap[i].pc = "page" /\ task[<<i, 0>>].pc = "stream" /\ task'[<<i, 0>>].pc = "ok"

C14_RewriteIff ==
  [][\A i \in CapIds :
       /\ (snap'[i].pc = "rwRead" /\ snap[i].pc # "rwRead") =>
            /\ PageStreamed(i) /\ Wrote(<<i, 0>>)
            /\ task[<<i, 0>>].ctype = "text/html; charset=utf-8"
            /\ opts.rewrite /\ ~opts.debug
       /\ (PageStreamed(i) /\ task[<<i, 0>>].ctype = "text/html; charset=utf-8"
              /\ opts.rewrite /\ ~opts.debug) => snap'[i].pc = "rwRead"
       /\ (snap'[i].pc = "rwWrite" /\ snap[i].pc # "rwWrite") => snap[i].pc = "rwRead"
       /\ \A d \in DOMAIN files' :
            (files'[d].rewritten /\ (d \in DOMAIN files => ~files[d].rewritten)) =>
              \E k \in CapIds : snap[k].pc = "rwWrite" /\ task[<<k, 0>>].dest = d
    ]_vars

C14_Witness ==
  \E i \in SnapIds(Cur) :
    /\ snap[i].pc = "resolved" /\ task[<<i, 0>>].pc = "ok"
    /\ files[task[<<i, 0>>].dest].rewritten

\* C15 as stated: the rewritten text is the fetched text with every
\* occurrence of the prefix "http(s)://web.archive.org/web/<digits>id_/"
\* replaced by nothing, and holds no such occurrence.
IdPrefixLen(text, k) ==
  LET n == DigitRun(text, k + 1)
      p == k + 1 + n
  IN IF At(text, k) = "P" /\ n >= 1 /\ At(text, p) = "i" /\ At(text, p + 1) = "d"
        /\ At(text, p + 2) = "_" /\ At(text, p + 3) = "/"
     THEN n + 5
     ELSE 0

RECURSIVE WithoutIdPrefix(_, _)
WithoutIdPrefix(text, k) ==
  IF k > Len(text) THEN <<>>
  ELSE IF IdPrefixLen(text, k) > 0 THEN WithoutIdPrefix(text, k + IdPrefixLen(text, k))
  ELSE <<text[k]>> \o WithoutIdPrefix(text, k + 1)

C15_StripsIdPrefix ==
  call.fn = "rewrite" =>
    /\ call.ret = WithoutIdPrefix(call.arg, 1)
    /\ \A k \in 1..Len(call.ret) : IdPrefixLen(call.ret, k) = 0

\* C16: without options.debug no debug line is ever written; with it, every
\* invocation past its debug block has appended exactly one line, the
\* capture's (timestamp, original, mimetype), to debug.json under the
\* capture's timestamp directory, and every other invocation none; a step
\* either leaves the lines alone or adds one after them.
DebugLinesOf(i) == {k \in 1..Len(debugLog) : debugLog[k].by = i}

C16_DebugLines ==
  /\ ~opts.debug => debugLog = <<>>
  /\ \A i \in SnapIds(Cur) :
       /\ Cardinality(DebugLinesOf(i)) =
            (IF opts.debug /\ snap[i].pc \in {"read", "assets", "resolved"} THEN 1 ELSE 0)
       /\ \A k \in DebugLinesOf(i) :
            /\ debugLog[k].path = <<"out", captures[i].timestamp, "debug.json">>
            /\ debugLog[k].line = [timestamp |-> captures[i].timestamp,
                                   original |-> captures[i].original,
                                   mimetype |-> captures[i].mimetype]

C16_DebugAppendOnly ==
  /\ []C16_DebugLines
  /\ [][\/ debugLog' = debugLog
        \/ /\ Len(debugLog') = Len(debugLog) + 1
           /\ SubSeq(debugLog', 1, Len(debugLog)) = debugLog]_vars

C16_Witness ==
  /\ opts.debug /\ Len(debugLog) = 2
  /\ debugLog[1].path = debugLog[2].path /\ debugLog[1].by # debugLog[2].by
  /\ \A i \in SnapIds(Cur) : snap[i].pc = "resolved"

\* C17: a download whose GET or body stream failed at transport level has
\* failed, and since that failure it has issued no GET and started no wait:
\* its GETs are its non-2xx answers plus the one that failed, its waits one
\* per non-2xx answer.  A GET beyond the first always follows a non-2xx answer.
IsTransportError(t) == task[t].err # <<>> /\ task[t].err[1].kind = "transport"

C17_TransportNotRetried ==
  \A t \in Started :
    /\ IsTransportError(t) =>
         /\ task[t].pc = "failed"
         /\ task[t].gets = task[t].bad + 1
         /\ Len(task[t].waits) = task[t].bad
    /\ task[t].gets <= task[t].bad + 1

C17_Witness ==
  \E t, u \in Started :
    /\ IsTransportError(t) /\ Wrote(t) /\ task[t].bad = 1 /\ task[t].gets = 2
    /\ IsTransportError(u) /\ ~Wrote(u) /\ t # u

\* C18: an invocation whose read-back of the page file failed has returned
\* normally, its tick has fired, it threw nothing, and it started no asset
\* download.
C18_ReadFailureSkipsAssets ==
  \A i \in SnapIds(Cur) :
    snap[i].caught # <<>> =>
      /\ snap[i].pc = "resolved" /\ snap[i].ticks = 1 /\ snap[i].err = <<>>
      /\ \A j \in RefIds : task[<<i, j>>].pc = "none" /\ task[<<i, j>>].gets = 0

C18_Witness ==
  \E i \in SnapIds(Cur) :
    /\ snap[i].caught # <<>> /\ snap[i].pc = "resolved"
    /\ Wrote(<<i, 0>>) /\ Len(site) >= 2

\* C19: a run sends exactly one GET to the index; when the answer is not 2xx
\* the run has failed with an error carrying the answer's status code and
\* reason phrase, its capture list is empty and no download has started; a
\* run that went past the index query met no such error.
C19_IndexFailureFatal ==
  /\ index.gets = 1
  /\ index.err # <<>> =>
       /\ main = "failed"
       /\ \/ index.err[1].status = 300 /\ index.err[1].statusText = "Multiple Choices"
          \/ index.err[1].status = 503 /\ index.err[1].statusText = "Service Unavailable"
       /\ captures = <<>>
       /\ \A i \in CapIds : snap[i].pc = "none"
       /\ \A t \in TaskIds : task[t].pc = "none" /\ task[t].gets = 0
  /\ main \in {"prompt", "queue", "done", "crashed", "exit"} => index.err = <<>>
  /\ (main = "failed" /\ opts.concurrency >= 1) => index.err # <<>>

C19_Witness ==
  /\ main = "failed" /\ index.err # <<>> /\ index.err[1].status = 503
  /\ Len(rows) > 1

\* C20: for every index body the capture list is the body without its first
\* row, row k + 1 giving capture k field by field (timestamp, original,
\* mimetype), in the body's order and with its repetitions; a body of at most
\* one row gives the empty list.
C20_RowsToCaptures ==
  call.fn = "listCaptures" =>
    /\ Len(call.ret) = (IF Len(call.arg) <= 1 THEN 0 ELSE Len(call.arg) - 1)
    /\ \A k \in 1..Len(call.ret) :
         /\ call.ret[k].timestamp = call.arg[k + 1][1]
         /\ call.ret[k].original = call.arg[k + 1][2]
         /\ call.ret[k].mimetype = call.arg[k + 1][3]

C20_Witness ==
  /\ call.fn = "listCaptures"
  /\ call.arg = <<HeaderRow, RowOf(Capture(T2, RootUrl)), RowOf(Capture(T1, RootUrl)),
                  RowOf(Capture(T1, RootUrl))>>
  /\ call.ret = <<Capture(T2, RootUrl), Capture(T1, RootUrl), Capture(T1, RootUrl)>>

C20_WitnessEmpty == call.fn = "listCaptures" /\ call.arg = <<>> /\ call.ret = <<>>

\* C21: the query string of the URL buildCdxUrl returns, read back as
\* key=value pairs, holds url = the root URL, output = json,
\* filter = statuscode:200, fl = timestamp,original,mimetype and
\* matchType = exact; collapse = digest exactly when noDedup is not set (true);
\* from and to exactly when the option is supplied (a non-empty value), with
\* that value; and nothing else.
RECURSIVE SplitOn(_, _, _)
SplitOn(str, sep, acc) ==
  IF str = <<>> THEN <<acc>>
  ELSE IF Head(str) = sep THEN <<acc>> \o SplitOn(Tail(str), sep, <<>>)
  ELSE SplitOn(Tail(str), sep, Append(acc, Head(str)))

FormDecodeChar(c) ==
  CASE c = "%3A" -> ":"
    [] c = "%2F" -> "/"
    [] c = "%3F" -> "?"
    [] c = "%26" -> "&"
    [] c = "%3D" -> "="
    [] c = "%2C" -> ","
    [] c = "+" -> " "
    [] OTHER -> c

FormDecode(str) == [k \in 1..Len(str) |-> FormDecodeChar(str[k])]

QueryPairs(url) ==
  LET query == SplitOn(url, "?", <<>>)
      items == IF Len(query) = 2 THEN SplitOn(query[2], "&", <<>>) ELSE <<>>
      Pair(item) == LET kv == SplitOn(item, "=", <<>>)
                    IN IF Len(kv) = 2 THEN <<FormDecode(kv[1]), FormDecode(kv[2])>>
                       ELSE <<<<"malformed">>, item>>
  IN [k \in 1..Len(items) |-> Pair(items[k])]

C21_CdxQuery ==
  call.fn = "buildCdxUrl" =>
    LET rootUrl == call.arg[1]
        o == call.arg[2]
        pairs == QueryPairs(call.ret)
        Values(key) == {pairs[k][2] : k \in {m \in 1..Len(pairs) : pairs[m][1] = <<key>>}}
        Count(key) == Cardinality({m \in 1..Len(pairs) : pairs[m][1] = <<key>>})
        Supplied(v) == v # <<>> /\ v[1] # <<>>
    IN /\ Values("url") = {rootUrl} /\ Count("url") = 1
       /\ Values("output") = {<<"json">>} /\ Count("output") = 1
       /\ Values("filter") = {<<"statuscode", ":", "200">>} /\ Count("filter") = 1
       /\ Values("fl") = {<<"timestamp", ",", "original", ",", "mimetype">>}
       /\ Count("fl") = 1
       /\ Values("matchType") = {<<"exact">>} /\ Count("matchType") = 1
       /\ Values("collapse") = (IF o.noDedup = <<TRUE>> THEN {} ELSE {<<"digest">>})
       /\ Count("collapse") <= 1
       /\ Values("from") = (IF Supplied(o.from) THEN {o.from[1]} ELSE {})
       /\ Count("from") <= 1
       /\ Values("to") = (IF Supplied(o.to) THEN {o.to[1]} ELSE {})
       /\ Count("to") <= 1
       /\ \A k \in 1..Len(pairs) :
            pairs[k][1] \in {<<"url">>, <<"output">>, <<"filter">>, <<"fl">>,
                             <<"matchType">>, <<"collapse">>, <<"from">>, <<"to">>}

C21_Witness ==
  /\ call.fn = "buildCdxUrl"
  /\ Len(call.arg[1]) > 5
  /\ call.arg[2] = [noDedup |-> <<FALSE>>, from |-> <<<<"20190101">>>>, to |-> <<<<>>>>]
  /\ \E k \in 1..(Len(call.ret) - 2) :
       call.ret[k] = "collapse" /\ call.ret[k + 1] = "=" /\ call.ret[k + 2] = "digest"

\* C22: the query built for a command line omits collapse=digest when the
\* command line holds --no-dedup, and includes it when it does not.
C22_NoDedupFlag ==
  call.fn = "cli" =>
    LET argv == call.arg[1]
        pairs == QueryPairs(call.ret)
        collapse == \E k \in 1..Len(pairs) : pairs[k] = <<<<"collapse">>, <<"digest">>>>
    IN collapse <=> ~(\E k \in 1..Len(argv) : argv[k] = "--no-dedup")

C23_WitnessNoAnswer ==
  /\ main = "exit" /\ Len(ParseRows(rows)) = 2 /\ index.choices = <<T1, T2>>

\* C24: targetPath is the output root, the timestamp, then the segments of
\* the URL path without its leading '/', followed by index.html exactly when
\* the path ends in '/'; two URLs with the same path get the same result
\* whatever their scheme, hostname, query string and fragment.
C24_TargetPath ==
  call.fn = "targetPath" =>
    LET cap == call.arg[1]
        path == IF cap.original.path = <<>> THEN <<"/">> ELSE cap.original.path
        segments == SelectSeq(Tail(path), LAMBDA piece : piece # "/")
    IN /\ Head(path) = "/"
       /\ call.ret = <<OutRoot, cap.timestamp>> \o segments
                       \o (IF path[Len(path)] = "/" THEN <<"index.html">> ELSE <<>>)
       /\ \A v \in UrlPool :
            v.path = cap.original.path =>
              targetPath(OutRoot, [timestamp |-> cap.timestamp, original |-> v]) = call.ret

C24_Witness ==
  /\ call.fn = "targetPath"
  /\ call.arg[1].original.path = <<"/", "docs", "/">>
  /\ call.arg[1].original.host = "example.png" /\ call.arg[1].original.query = "v=2"
  /\ "fragment" \in DOMAIN call.arg[1].original
  /\ call.ret = <<OutRoot, T2, "docs", "index.html">>

C24_WitnessFile ==
  /\ call.fn = "targetPath"
  /\ call.arg[1].original.path = <<"/", "b.js">> /\ call.arg[1].original.query = "b.js"
  /\ call.ret = <<OutRoot, T1, "b.js">>

\* C25: waybackUrlFor returns https://web.archive.org/web/ then the timestamp,
\* the modifier, '/' and the original URL as given; the modifier is im_ when
\* the URL without query string and fragment ends in one of the image
\* extensions in any letter case, cs_ when it ends in .css, js_ when it ends
\* in .js, and id_ otherwise, .html included.
C25_WaybackUrl ==
  call.fn = "waybackUrlFor" =>
    LET u == call.arg[1]
        ts == call.arg[2]
        last == IF u.path = <<>> THEN u.host ELSE u.path[Len(u.path)]
        ext == ExtOf(last)
        modifier ==
          CASE ext \in {"png", "jpg", "jpeg", "gif", "webp", "svg", "ico", "bmp", "tif", "tiff"}
                 -> "im_"
            [] ext = "css" -> "cs_"
            [] ext = "js" -> "js_"
            [] OTHER -> "id_"
    IN call.ret = <<"https", ":", "/", "/", "web.archive.org", "/", "web", "/">>
                    \o <<ts, modifier, "/">> \o Render(u)

C25_Witness ==
  /\ call.fn = "waybackUrlFor"
  /\ call.arg[1].path = <<"/", "A.PNG">> /\ call.arg[1].query = "b.js"
  /\ "fragment" \in DOMAIN call.arg[1] /\ call.arg[1].fragment = "top"
  /\ call.ret[10] = "im_"

C25_WitnessHtml ==
  /\ call.fn = "waybackUrlFor"
  /\ call.arg[1].path = <<"/", "index.html">> /\ call.arg[1].query = "b.js"
  /\ call.ret[10] = "id_"

\* C26: every URL extractAssetUrls returns is an absolute http or https URL
\* (its text starts with http:// or https:// and names a host, so it starts
\* with neither data: nor javascript: nor mailto:), and no URL is returned
\* twice.
C26_HttpOnlyNoDuplicates ==
  call.fn = "extractAssetUrls" =>
    \A k \in 1..Len(call.ret) :
      LET text == Render(call.ret[k]) IN
      /\ Len(text) >= 5
      /\ text[1] \in {"http", "https"} /\ text[1] \notin {"data", "javascript", "mailto"}
      /\ <<text[2], text[3], text[4]>> = <<":", "/", "/">>
      /\ text[5] = call.ret[k].host /\ text[5] # ""
      /\ \A j \in 1..(k - 1) : call.ret[j] # call.ret[k]

C26_Witness ==
  /\ call.fn = "extractAssetUrls"
  /\ Len(call.arg[1]) = 2
  /\ call.arg[1][1] = [name |-> "src", value |-> <<<<"javascript", ":", "void(0)">>>>]
  /\ call.arg[1][2].name = "srcset" /\ Len(call.arg[1][2].value) = 9
  /\ call.arg[2] = PageBase
  /\ call.ret = <<APng, Url("https", "example.com", <<"/", "page", "/", "AAAA">>, "")>>

C26_WitnessSameUrl ==
  /\ call.fn = "extractAssetUrls"
  /\ call.arg[1] = <<[name |-> "src", value |-> <<Render(APng)>>],
                     [name |-> "src", value |-> <<<<"/", "a.png">>>>]>>
  /\ call.ret = <<APng>>

\* C27: every srcset attribute value contributes, for each of its
\* comma-separated descriptors, the descriptor's first whitespace-delimited
\* token resolved against the base URL (when that is an http or https URL),
\* and no width or resolution suffix is part of a returned URL.
SrcsetTokens(value) ==
  LET parts == SplitOn(value, <<",">>, <<>>)
      First(part) == SelectSeq(part, LAMBDA word : word \notin {<<" ">>, <<"\n">>})
  IN {First(parts[k])[1] : k \in {m \in 1..Len(parts) : First(parts[m]) # <<>>}}

SrcsetContributes(a) ==
  \A token \in SrcsetTokens(a.value) :
    LET abs == ResolveUrl(token, call.arg[2]) IN
    (abs # <<>> /\ abs[1].scheme \in {"http", "https"}) =>
      \E k \in 1..Len(call.ret) : call.ret[k] = abs[1]

NoSuffixReturned ==
  \A k \in 1..Len(call.ret) :
    \A m \in 1..Len(call.ret[k].path) : call.ret[k].path[m] \notin {"1x", "2x", "200w"}

C27_SrcsetDescriptors ==
  call.fn = "extractAssetUrls" =>
    /\ \A k \in 1..Len(call.arg[1]) :
         call.arg[1][k].name = "srcset" => SrcsetContributes(call.arg[1][k])
    /\ NoSuffixReturned

\* C27 for srcset values written on one line.
C27_OneLineSrcset ==
  call.fn = "extractAssetUrls" =>
    /\ \A k \in 1..Len(call.arg[1]) :
         (/\ call.arg[1][k].name = "srcset"
          /\ \A m \in 1..Len(call.arg[1][k].value) : call.arg[1][k].value[m] # <<"\n">>)
           => SrcsetContributes(call.arg[1][k])
    /\ NoSuffixReturned

\* C28: an existing vercel.json is never changed; a missing one is created
\* only by ensureVercelJson for the selected folder, and only as
\* {version: 2, cleanUrls: true, trailingSlash: false}; once ensureVercelJson
\* has returned the file exists, and a second call over the same folder
\* leaves it as the first call left it.
C28_VercelJson ==
  /\ [](/\ deploy.pc \in {"exec", "done"} => deploy.vjson[deploy.selected[1]] # <<>>
        /\ deploy.wrote => deploy.vjson[deploy.selected[1]] = <<DefaultConfig>>)
  /\ [][\A ts \in Timestamps :
          /\ deploy.vjson[ts] # <<>> => deploy'.vjson[ts] = deploy.vjson[ts]
          /\ (deploy.vjson[ts] = <<>> /\ deploy'.vjson[ts] # <<>>) =>
               /\ deploy.pc = "json" /\ deploy.selected = <<ts>>
               /\ deploy'.vjson[ts] = <<DefaultConfig>>]_vars

C28_Witness ==
  /\ run = MaxRuns /\ deploy.pc = "done" /\ ~deploy.wrote
  /\ deploy.vjson[deploy.selected[1]] = <<DefaultConfig>>

C28_WitnessExisting ==
  /\ deploy.pc = "done"
  /\ deploy.vjson[deploy.selected[1]] = <<[version |-> 2, custom |-> TRUE]>>

\* C29: the deploy command's arguments are 'deploy', the deploy directory and
\* '--yes', then '--name' and the name exactly when a (non-empty) project
\* name is given, then '--prod' exactly when prod is set, in that order.
C29_VercelArgs ==
  deploy.cmd # <<>> =>
    LET args == deploy.cmd[1]
        named == opts.name \notin {<<>>, <<"">>}
        prod == opts.prod = <<TRUE>>
        n == 3 + (IF named THEN 2 ELSE 0)
    IN /\ Len(args) = n + (IF prod THEN 1 ELSE 0)
       /\ args[1] = "deploy" /\ args[2] = <<OutRoot, deploy.selected[1]>> /\ args[3] = "--yes"
       /\ named => args[4] = "--name" /\ args[5] = opts.name[1]
       /\ prod => args[n + 1] = "--prod"

C29_Witness ==
  /\ deploy.cmd # <<>>
  /\ deploy.cmd[1] = <<"deploy", <<OutRoot, T2>>, "--yes", "--name", "proj", "--prod">>

C29_WitnessPlain ==
  /\ deploy.cmd # <<>> /\ opts.name = <<"">> /\ opts.prod = <<FALSE>>
  /\ deploy.cmd[1] = <<"deploy", <<OutRoot, T1>>, "--yes">>

\* C30: deployWithVercel goes through login check, folder selection,
\* vercel.json and deploy command in that order, each begun only after the
\* one before it succeeded; when nobody is logged in, when the output
\* directory holds no folder, or when --select names no folder of it, no
\* vercel.json is written and no deploy command is run; and deploy mode sends
\* no index query and starts no download.
C30_DeploySteps ==
  LET order == <<"login", "select", "vercel.json", "deploy">>
      steps == deploy.steps
      dirs == {e.name : e \in {d \in deploy.entries : d.isDirectory}}
      selectGiven == opts.select \notin {<<>>, <<"">>}
      nothingLater == ~deploy.wrote /\ deploy.cmd = <<>>
  IN /\ Len(steps) <= Len(order) /\ steps = SubSeq(order, 1, Len(steps))
     /\ deploy.pc = "failed" =>
          /\ main = "failed"
          /\ deploy.err = "not logged in" => Len(steps) = 1 /\ nothingLater
          /\ deploy.err \in {"no snapshots", "not found", "no selection"} =>
               Len(steps) = 2 /\ nothingLater
          /\ deploy.err = "write failed" => Len(steps) = 3 /\ nothingLater
     /\ ~deploy.loggedIn => nothingLater /\ Len(steps) <= 1
     /\ dirs = {} => nothingLater /\ Len(steps) <= 2
     /\ (selectGiven /\ opts.select[1] \notin dirs) => nothingLater /\ Len(steps) <= 2
     /\ (deploy.cmd # <<>> \/ deploy.wrote) =>
          /\ deploy.loggedIn /\ deploy.selected[1] \in dirs
          /\ selectGiven => deploy.selected = opts.select
          /\ deploy.vjson[deploy.selected[1]] # <<>>
     /\ deploy.cmd # <<>> => steps = order
     /\ opts.deploy =>
          /\ index.gets = 0 /\ main \in {"start", "deploy", "done", "failed"}
          /\ captures = <<>>
          /\ \A t \in TaskIds : task[t].pc = "none" /\ task[t].gets = 0
     /\ main = "cdx" => ~opts.deploy /\ index.gets = 1 /\ steps = <<>>

C30_Witness ==
  /\ deploy.pc = "failed" /\ deploy.err = "not found" /\ deploy.loggedIn
  /\ opts.select = <<T2>> /\ [name |-> T2, isDirectory |-> FALSE] \in deploy.entries
  /\ [name |-> T1, isDirectory |-> TRUE] \in deploy.entries

C30_WitnessDeployed ==
  /\ deploy.pc = "done" /\ deploy.wrote /\ opts.select = <<>>
  /\ deploy.steps = <<"login", "select", "vercel.json", "deploy">>

C30_WitnessNotLoggedIn ==
  /\ deploy.pc = "failed" /\ deploy.err = "not logged in"
  /\ \E e \in deploy.entries : e.isDirectory

C32_ExistingFileComplete ==
  /\ \A path \in DOMAIN files :
       (\A t \in TaskIds : task[t].dest = path => task[t].pc \notin {"get", "stream"})
         => files[path].state = "complete"
  /\ \A t \in Started :
       (task[t].pc = "skipped" /\ existsSync(files, task[t].dest)) =>
         files[task[t].dest].state = "complete"

\* The resume check of a second run skips a path whose only download failed
\* while its body was streamed.
C32_PartialSkipped ==
  ~(/\ run = 2
    /\ \E t \in Started :
         /\ task[t].pc = "skipped" /\ task[t].dest \in prevFiles
         /\ files[task[t].dest].state = "partial")

\* C33: the fetch set of an invocation is fixed when the page has been read
\* back: it holds each URL once, only URLs the page itself references, and is
\* never extended afterwards, not even when a fetched asset is itself a page;
\* downloads exist only for the page and the members of the fetch set, so the
\* invocation's GETs number at most 3 * (1 + size of the fetch set).
RECURSIVE GetsUpTo(_, _)
GetsUpTo(i, j) == IF j < 0 THEN 0 ELSE task[<<i, j>>].gets + GetsUpTo(i, j - 1)

C33_OneLevel ==
  /\ [](\A i \in CapIds :
         LET assets == snap[i].assets IN
         /\ \A j, k \in 1..Len(assets) : j # k => assets[j] # assets[k]
         /\ \A j \in 1..Len(assets) :
              \E k \in 1..Len(site) :
                ResolveUrl(Render(site[k]), captures[i].original) = <<assets[j]>>
         /\ \A t \in TaskIds :
              (t[1] = i /\ t[2] > Len(assets)) => task[t].pc = "none" /\ task[t].gets = 0
         /\ GetsUpTo(i, MaxTasks - 1) <= MaxAttempts * (1 + Len(assets)))
  /\ [][\A i \in CapIds :
          snap[i].pc \in {"assets", "resolved"} =>
            snap'[i].assets = snap[i].assets]_vars

C33_Witness ==
  \E i \in SnapIds(Cur) :
    /\ snap[i].pc = "resolved" /\ snap[i].assets = <<BlogUrl>>
    /\ task[<<i, 1>>].pc = "ok" /\ task[<<i, 1>>].gets = 3
    /\ files[task[<<i, 1>>].dest].state = "complete"
    /\ \A j \in 2..(MaxTasks - 1) : task[<<i, j>>].pc = "none"

\* C34: when every awaited operation completes at some time, the run reaches
\* a state in which every capture's invocation and every single-resource
\* download has settled and the outer queue is idle, whatever succeeded and
\* whatever failed.  Every step of the program is the completion of an awaited
\* operation, so the run has stopped for good exactly where no step is
\* possible: termination says that in such a state nothing is left unsettled.
Quiescent ==
  /\ \A i \in CapIds : snap[i].pc \in SnapSettledPcs \cup {"none"}
  /\ \A t \in TaskIds : t[2] >= 1 => task[t].pc \in SettledPcs \cup {"none"}

C34_Termination ==
  (main \notin {"cdx", "prompt", "queue"} /\ ~ENABLED Next) => Quiescent

\* C34 otherwise: a run that stopped with work unsettled is one the runtime
\* ended on the rejection of a failed capture that nothing handles.
C34_UnsettledOnlyByCrash ==
  /\ main \in {"cdx", "prompt", "queue"} \/ ~ENABLED Next
  /\ (main \notin {"cdx", "prompt", "queue"} /\ ~Quiescent) => main = "crashed"

\* C35: every file the downloads create or write, and every debug file, lies
\* below <output root>/<timestamp of its capture>/, whatever the page URL and
\* the references are, same-host or external; nothing is written elsewhere.
Inside(path, dir) ==
  /\ Len(path) > Len(dir) /\ SubSeq(path, 1, Len(dir)) = dir
  /\ \A k \in (Len(dir) + 1)..Len(path) : path[k] \notin {"..", ".", "/", ""}

C35_PathContainment ==
  LET Home(i) == <<OutRoot, captures[i].timestamp>> IN
  /\ \A t \in TaskIds : task[t].dest # <<>> =>
        /\ t[1] \in SnapIds(Cur) /\ captures[t[1]].timestamp \in Timestamps
        /\ Inside(task[t].dest, Home(t[1]))
  /\ \A p \in DOMAIN files :
        \E t \in TaskIds : task[t].dest = p /\ task[t].wrote
  /\ \A k \in 1..Len(debugLog) :
        Inside(debugLog[k].path, Home(debugLog[k].by))

C35_Witness ==
  /\ opts.includeExternal
  /\ captures = <<Capture(T1, DotPage)>>
  /\ <<OutRoot, T1, "etc", "index.html">> \in DOMAIN files
  /\ task[<<1, 1>>].pc = "ok" /\ task[<<1, 1>>].dest = <<OutRoot, T1, "a.png">>
  /\ files[<<OutRoot, T1, "a.png">>].state = "complete"

====
